---- MODULE Spec2Model ----
(***************************************************************************)
(* State-machine model of revgraph's extraction pipeline (elf_loader.py,   *)
(* bcc_loader.py, binary_artifact.py), its graph loader (graph/loader.py)  *)
(* and the Basic Block Rank engine (analysis/bbr.py).                      *)
(*                                                                         *)
(* Numbers: numpy float64 values are modelled as binary floating-point     *)
(* numbers <<m, e>> = m * 2^e with round-to-nearest-even, the exponent     *)
(* range of float64 (smallest positive value 2^-1074) and a mantissa of    *)
(* MantissaBits bits instead of 53.                                        *)
(***************************************************************************)
EXTENDS Integers, Sequences, FiniteSets, TLC

(* ------------------------------------------------------------------ *)
(* Bounds of the model                                                 *)
(* ------------------------------------------------------------------ *)
MantissaBits == 14
MaxAddr == 3
MaxEdges == 3
MaxSymtab == 2
MaxInsns == 2
MaxDynsym == 2
MaxRelocs == 2
LongIterations == 1100
LongMaxAddr == 1
LongMaxEdges == 2
WriteBackChunkRows == 1
MaxFragments == 4
MaxLoopIterations == 2
MaxToolCalls == 2
OrderMaxEdges == 2
OrderMaxIterations == 2

(* ------------------------------------------------------------------ *)
(* float64 arithmetic (IEEE 754 binary, round to nearest, ties to even) *)
(* ------------------------------------------------------------------ *)
\* float64: the least exponent of a subnormal, 2^-1074 is the least positive value
EMin == 0 - 1074

Pow2(k) == 2 ^ k

RECURSIVE BitLen(_)
BitLen(m) == IF m = 0 THEN 0 ELSE 1 + BitLen(m \div 2)

\* m / 2^s rounded to the nearest integer, ties to the even one
ShiftRightRNE(m, s) ==
    IF s = 0 THEN m
    ELSE IF s > 30 THEN 0
    ELSE LET q == m \div Pow2(s)
             r == m % Pow2(s)
             half == Pow2(s - 1)
         IN  IF r > half \/ (r = half /\ q % 2 = 1) THEN q + 1 ELSE q

\* the float nearest to m * 2^e (m >= 0 an exact integer below 2^31)
FRound(m, e) ==
    IF m = 0 THEN <<0, EMin>>
    ELSE LET over == BitLen(m) - MantissaBits
             s == IF EMin - e > over THEN EMin - e ELSE over
         IN  IF s > 0
             THEN LET q == ShiftRightRNE(m, s)
                  IN  IF q = 0 THEN <<0, EMin>>
                      ELSE IF q = Pow2(MantissaBits) THEN <<Pow2(MantissaBits - 1), e + s + 1>>
                      ELSE <<q, e + s>>
             ELSE <<m * Pow2(0 - s), e + s>>

FZero == <<0, EMin>>
FInt(n) == FRound(n, 0)
FOne == FInt(1)

FMul(a, b) == FRound(a[1] * b[1], a[2] + b[2])

\* a + b for a, b >= 0
FAdd(a, b) ==
    IF a[1] = 0 THEN b
    ELSE IF b[1] = 0 THEN a
    ELSE LET hi == IF a[2] >= b[2] THEN a ELSE b
             lo == IF a[2] >= b[2] THEN b ELSE a
             d == hi[2] - lo[2]
         IN  IF d > MantissaBits + 1 THEN hi
             ELSE FRound(hi[1] * Pow2(d) + lo[1], lo[2])

\* a < b for a, b >= 0
FLess(a, b) == a[2] < b[2] \/ (a[2] = b[2] /\ a[1] < b[1])

\* a - b for a >= b >= 0
FSub(a, b) ==
    IF b[1] = 0 THEN a
    ELSE LET d == a[2] - b[2]
         IN  IF d > MantissaBits + 1 THEN a
             ELSE FRound(a[1] * Pow2(d) - b[1], b[2])

\* a / b for a >= 0, b > 0
FDiv(a, b) ==
    IF a[1] = 0 THEN FZero
    ELSE LET up == MantissaBits - BitLen(a[1])
             guard == BitLen(b[1]) + 1
             num == a[1] * Pow2(up) * Pow2(guard)
             q == num \div b[1]
             sticky == IF num % b[1] = 0 THEN 0 ELSE 1
         IN  FRound(2 * q + sticky, a[2] - up - guard - b[2] - 1)


(* ------------------------------------------------------------------ *)
(* State                                                               *)
(* ------------------------------------------------------------------ *)
VARIABLES
    \* the graph store, as compute_bbr reads it for one binary
    block_rows,      \* rows of the BasicBlock query: addresses
    edge_rows,       \* rows of the FLOW_TO query: <<source, target>>
    \* compute_bbr
    bbr_pc, iterations, damping_factor, nodes, edges, node_list,
    out_degree, M, rank, teleport, iter_done, scores,
    \* the file system and the container, as load_elf finds them
    path_kind,       \* what the path names: nothing, a directory, an unreadable or a regular file
    disk,            \* the image the file holds
    fault,           \* the stage at which the parsing libraries raise on this file
    \* load_elf
    elf_pc, file_bytes, elf, header, symbols, plt_entries, strings, functions, elf_result,
    \* load_bcc_file
    suffix_is_bcc,   \* path.suffix == ".bcc"
    blackfyre_installed,
    bcc_fault,       \* the stage at which Blackfyre or the conversion raises on this file
    bcc_pc, bcc_result,
    \* the graph store, as GraphLoader and write_bbr_scores write it
    graph,           \* the nodes of each label and the relationships
    load_stats,      \* what load_binary returned
    setattr_outcome, \* how the last assignment to a field of an artifact ended
    \* concurrent calls of write_bbr_scores on one binary
    wb_pc,           \* per call: "idle", "writing" or "done"
    wb_arg,          \* per call: the scores mapping the caller passed
    wb_rows,         \* per call: the rows no chunk has submitted yet
    wb_done_before,  \* per call: the calls that had returned when it started
    \* a call of validate_cypher
    vc_pc,           \* "idle" or "done"
    vc_query,        \* the query argument, a sequence of characters
    vc_allow_writes, \* the allow_writes argument
    vc_result,       \* the (is_valid, error_message) pair returned
    \* a call of LLMClient.tool_loop
    tl_pc,             \* "idle", "request", "tools", "final", "returned" or "raised"
    tl_max_iterations, \* the max_iterations argument
    tl_heap,           \* the list objects: the caller's and the one list() makes
    tl_ref,            \* the list the local name messages is bound to
    tl_iteration,      \* the value of iteration
    tl_attempt,        \* the attempt of the current request, counted by the retry wrapper
    tl_pending,        \* the tool calls of the response not yet executed
    tl_sent,           \* the completion requests sent so far, with what came back
    tl_executed,       \* the calls of tool_executor so far, with how each ended
    tl_result,         \* the value returned
    \* a chunked submission: write_bbr_scores or GraphLoader._batch_unwind
    cw_pc,             \* "idle", "loop" or "done"
    cw_query,          \* the query every request carries
    cw_rows,           \* rows
    cw_batch_size,     \* batch_size
    cw_i,              \* the loop variable i
    cw_sent            \* the batches session.run was called with, in order

elfVars == <<path_kind, disk, fault, elf_pc, file_bytes, elf, header, symbols,
             plt_entries, strings, functions, elf_result>>

bccVars == <<suffix_is_bcc, blackfyre_installed, bcc_fault, bcc_pc, bcc_result>>

bbrVars == <<block_rows, edge_rows, bbr_pc, iterations, damping_factor, nodes,
             edges, node_list, out_degree, M, rank, teleport, iter_done, scores>>

pipeVars == <<graph, load_stats, setattr_outcome>>

wbVars == <<wb_pc, wb_arg, wb_rows, wb_done_before>>

\* the state of the operations that take no part in the loaders and the ranking
vcVars == <<vc_pc, vc_query, vc_allow_writes, vc_result>>

tlVars == <<tl_pc, tl_max_iterations, tl_heap, tl_ref, tl_iteration, tl_attempt, tl_pending,
            tl_sent, tl_executed, tl_result>>

cwVars == <<cw_pc, cw_query, cw_rows, cw_batch_size, cw_i, cw_sent>>
auxVars == <<wbVars, vcVars, tlVars, cwVars>>

vars == <<bbrVars, elfVars, bccVars, pipeVars, auxVars>>

(* ------------------------------------------------------------------ *)
(* extraction/elf_loader.py                                            *)
(*                                                                     *)
(* A name is a sequence of tokens (<<"printf", "@", "plt">> is          *)
(* "printf@plt"); no token is a prefix of another, so that a prefix of  *)
(* tokens is a prefix of characters.  An ELF image is the parsed view   *)
(* pyelftools gives of the file: the sections present and their         *)
(* contents; the text section is given as the instructions capstone     *)
(* decodes from it.                                                     *)
(* ------------------------------------------------------------------ *)
Last(q) == q[Len(q)]

\* the indexes of a sequence
Indexes(q) == 1..Len(q)

RECURSIVE Flatten(_)
Flatten(qs) == IF qs = <<>> THEN <<>> ELSE qs[1] \o Flatten(Tail(qs))

IsPrefix(p, q) == Len(p) <= Len(q) /\ \A i \in 1..Len(p) : p[i] = q[i]

\* name.startswith(prefixes)
StartsWithAny(name, prefixes) == \E p \in prefixes : IsPrefix(p, name)

RECURSIVE SplitAtFirst(_)
\* name.split("@")[0]
SplitAtFirst(name) ==
    IF name = <<>> \/ name[1] = "@" THEN <<>>
    ELSE <<name[1]>> \o SplitAtFirst(Tail(name))

\* a Python dict as the sequence of its items in insertion order
DictHas(d, key) == \E i \in 1..Len(d) : d[i].key = key

DictGet(d, key) == d[CHOOSE i \in 1..Len(d) : d[i].key = key].val

\* d[key] = val: a new key is appended, an old key keeps its place
DictPut(d, key, val) ==
    IF DictHas(d, key)
    THEN [i \in 1..Len(d) |-> IF d[i].key = key THEN [key |-> key, val |-> val] ELSE d[i]]
    ELSE Append(d, [key |-> key, val |-> val])

DictKeys(d) == {d[i].key : i \in 1..Len(d)}

HasSection(image, name) == name \in image.sections

\* elf.iter_sections() filtered to SymbolTableSection, in section order
SymbolTables(image) ==
    (IF HasSection(image, ".dynsym") THEN image.dynsym ELSE <<>>)
        \o (IF HasSection(image, ".symtab") THEN image.symtab ELSE <<>>)

SymbolInfo(sym) ==
    [address |-> sym.st_value, size |-> sym.st_size, type |-> sym.type,
     bind |-> sym.bind, section_index |-> sym.st_shndx]

RECURSIVE CollectSymbols(_, _)
CollectSymbols(syms, symtab) ==
    IF syms = <<>> THEN symtab
    ELSE LET sym == syms[1]
         IN  IF sym.name # <<>> /\ sym.st_value # 0
             THEN CollectSymbols(Tail(syms), DictPut(symtab, sym.name, SymbolInfo(sym)))
             ELSE CollectSymbols(Tail(syms), symtab)

\* _get_symbols(elf): name -> info
GetSymbols(image) == CollectSymbols(SymbolTables(image), <<>>)

\* plt_entry_size = 16
PltEntrySize == 16

\* mutant of StubAddr: the resolver slot PLT[0] is not skipped
StubAddrFromSlotZero(plt_base, i) == plt_base + i * PltEntrySize

\* stub_addr = plt_base + (i + 1) * plt_entry_size, i the 0-based ordinal
StubAddr(plt_base, i) == plt_base + (i + 1) * PltEntrySize

\* the entries before the i-th that name a symbol
NamedBefore(rels, i, dynsym) ==
    Cardinality({k \in 1..i : dynsym[rels[k] + 1].name # <<>>})

RECURSIVE BindRelocationsNamedOnly(_, _, _, _, _)
\* a binding in which an entry without a name takes no stub
BindRelocationsNamedOnly(rels, i, dynsym, plt_base, imports) ==
    IF i >= Len(rels) THEN imports
    ELSE LET sym == dynsym[rels[i + 1] + 1]
         IN  IF sym.name # <<>>
             THEN BindRelocationsNamedOnly(rels, i + 1, dynsym, plt_base,
                      DictPut(imports, sym.name,
                              StubAddr(plt_base, NamedBefore(rels, i, dynsym))))
             ELSE BindRelocationsNamedOnly(rels, i + 1, dynsym, plt_base, imports)

RECURSIVE BindRelocations(_, _, _, _, _)
\* for i, rel in enumerate(rela_plt.iter_relocations()), i 0-based
BindRelocations(rels, i, dynsym, plt_base, imports) ==
    IF i >= Len(rels) THEN imports
    ELSE LET sym == dynsym[rels[i + 1] + 1]
         IN  IF sym.name # <<>>
             THEN BindRelocations(rels, i + 1, dynsym, plt_base,
                                  DictPut(imports, sym.name, StubAddr(plt_base, i)))
             ELSE BindRelocations(rels, i + 1, dynsym, plt_base, imports)

RECURSIVE CollectUndefined(_, _)
\* undefined dynamic function symbols not yet mapped get address 0
CollectUndefined(syms, imports) ==
    IF syms = <<>> THEN imports
    ELSE LET sym == syms[1]
         IN  IF /\ sym.name # <<>>
                /\ sym.type = "STT_FUNC"
                /\ sym.st_shndx = "SHN_UNDEF"
                /\ ~DictHas(imports, sym.name)
             THEN CollectUndefined(Tail(syms), DictPut(imports, sym.name, 0))
             ELSE CollectUndefined(Tail(syms), imports)

\* mutant of GetPltImports: a missing .plt does not end the function
GetPltImportsWithoutPltCheck(image, symtab) ==
    IF ~HasSection(image, ".dynsym") THEN <<>>
    ELSE LET bound == IF HasSection(image, ".rela.plt") /\ image.rela_plt_is_relocation
                      THEN BindRelocations(image.rela_plt, 0, image.dynsym, image.plt.sh_addr, <<>>)
                      ELSE <<>>
         IN  CollectUndefined(image.dynsym, bound)

\* _get_plt_imports(elf, symbols): name -> stub address
GetPltImports(image, symtab) ==
    IF ~HasSection(image, ".plt") THEN <<>>
    ELSE IF ~HasSection(image, ".dynsym") THEN <<>>
    ELSE LET bound == IF HasSection(image, ".rela.plt") /\ image.rela_plt_is_relocation
                      THEN BindRelocations(image.rela_plt, 0, image.dynsym, image.plt.sh_addr, <<>>)
                      ELSE <<>>
         IN  CollectUndefined(image.dynsym, bound)

\* binary_artifact.py: the frozen dataclasses, as records
StringReference(value, address) == [value |-> value, address |-> address]

ImportReference(name, library, address) ==
    [name |-> name, library |-> library, address |-> address]

InstructionArtifact(address, mnemonic, opcode) ==
    [address |-> address, mnemonic |-> mnemonic, opcode |-> opcode,
     category |-> "", vex_ir |-> ""]

BasicBlockArtifact(address, size, num_instructions, instructions, successors) ==
    [address |-> address, size |-> size, num_instructions |-> num_instructions,
     instructions |-> instructions, successors |-> successors]

FunctionArtifact(name, address, size, basic_blocks, callees, strs, imports) ==
    [name |-> name, address |-> address, size |-> size, decompiled_code |-> "",
     basic_blocks |-> basic_blocks, callees |-> callees, strings |-> strs,
     imports |-> imports]

BinaryArtifact(name, sha256, architecture, endianness, file_type, word_size, funcs, strs, imports) ==
    [name |-> name, sha256 |-> sha256, architecture |-> architecture,
     endianness |-> endianness, file_type |-> file_type, word_size |-> word_size,
     functions |-> funcs, strings |-> strs, imports |-> imports]

IsPrintable(byte) == 32 <= byte /\ byte <= 126

RECURSIVE ScanStringsNoFlush(_, _, _, _, _, _)
\* a byte loop without the test after the last byte of the section
ScanStringsNoFlush(data, base_addr, i, current, start, refs) ==
    IF i >= Len(data)
    THEN refs
    ELSE LET byte == data[i + 1]
         IN  IF IsPrintable(byte)
             THEN ScanStringsNoFlush(data, base_addr, i + 1, Append(current, byte),
                              IF current = <<>> THEN i ELSE start, refs)
             ELSE ScanStringsNoFlush(data, base_addr, i + 1, <<>>, start,
                              IF Len(current) >= 4
                              THEN Append(refs, StringReference(current, base_addr + start))
                              ELSE refs)

RECURSIVE ScanStrings(_, _, _, _, _, _)
\* the byte loop of _get_strings over one section, i 0-based
ScanStrings(data, base_addr, i, current, start, refs) ==
    IF i >= Len(data)
    THEN IF Len(current) >= 4
         THEN Append(refs, StringReference(current, base_addr + start))
         ELSE refs
    ELSE LET byte == data[i + 1]
         IN  IF IsPrintable(byte)
             THEN ScanStrings(data, base_addr, i + 1, Append(current, byte),
                              IF current = <<>> THEN i ELSE start, refs)
             ELSE ScanStrings(data, base_addr, i + 1, <<>>, start,
                              IF Len(current) >= 4
                              THEN Append(refs, StringReference(current, base_addr + start))
                              ELSE refs)

SectionStrings(image, name, sec) ==
    IF HasSection(image, name) THEN ScanStrings(sec.data, sec.sh_addr, 0, <<>>, 0, <<>>)
    ELSE <<>>

\* _get_strings(elf): printable runs of .rodata, then of .data
GetStrings(image) ==
    SectionStrings(image, ".rodata", image.rodata) \o SectionStrings(image, ".data", image.data)

RECURSIVE SumSizes(_, _)
SumSizes(insns, k) == IF k = 0 THEN 0 ELSE insns[k].size + SumSizes(insns, k - 1)

\* len(text_data)
TextLen(text) == SumSizes(text.insns, Len(text.insns))

\* the address at which the k-th instruction of the section starts
InsnAddr(text, k) == text.sh_addr + SumSizes(text.insns, k - 1)

RECURSIVE DecodeFrom(_, _, _, _)
DecodeFrom(text, k, end, out) ==
    IF \/ k > Len(text.insns)
       \/ text.insns[k].mnemonic = "(bad)"
       \/ InsnAddr(text, k) + text.insns[k].size > end
    THEN out
    ELSE DecodeFrom(text, k + 1, end,
                    Append(out, [address |-> InsnAddr(text, k), insn |-> text.insns[k]]))

\* md.disasm(text_data[offset : offset + size], addr): the instructions decoded from
\* addr on, up to the first undecodable one or the end of the slice; an address that
\* is no instruction boundary of the section is taken to decode to nothing
Disasm(text, addr, size) ==
    LET len == TextLen(text)
        stop == IF addr + size < text.sh_addr + len THEN addr + size ELSE text.sh_addr + len
        at == {k \in 1..Len(text.insns) : InsnAddr(text, k) = addr}
    IN  IF at = {} THEN <<>> ELSE DecodeFrom(text, CHOOSE k \in at : TRUE, stop, <<>>)

HexDigits == <<"0", "1", "2", "3", "4", "5", "6", "7", "8", "9", "a", "b", "c", "d", "e", "f">>

RECURSIVE Hex(_)
\* bytes.hex()
Hex(bytes) ==
    IF bytes = <<>> THEN <<>>
    ELSE <<HexDigits[(bytes[1] \div 16) + 1], HexDigits[(bytes[1] % 16) + 1]>> \o Hex(Tail(bytes))

\* capstone's operand types and the id of the rip register
X86_OP_IMM == 2
X86_OP_MEM == 3
X86_REG_RIP == 41

\* the prefixes of compiler and runtime start-up functions
CrtPrefixes == {<<"_">>, <<"deregister", "_">>, <<"register", "_">>, <<"frame", "_">>, <<"_", "_">>}

RECURSIVE FuncSymsAnySize(_, _, _)
\* a filter that keeps the function symbols of size 0 as well
FuncSymsAnySize(symtab, text_base, text_len) ==
    IF symtab = <<>> THEN <<>>
    ELSE LET name == symtab[1].key
             info == symtab[1].val
             rest == FuncSymsAnySize(Tail(symtab), text_base, text_len)
         IN  IF /\ info.type = "STT_FUNC"
                /\ text_base <= info.address
                /\ info.address < text_base + text_len
             THEN <<[name |-> name, addr |-> info.address, size |-> info.size]>> \o rest
             ELSE rest

RECURSIVE FuncSyms(_, _, _)
\* FUNC symbols of non-zero size whose address lies in .text, in dict order
FuncSyms(symtab, text_base, text_len) ==
    IF symtab = <<>> THEN <<>>
    ELSE LET name == symtab[1].key
             info == symtab[1].val
             rest == FuncSyms(Tail(symtab), text_base, text_len)
         IN  IF /\ info.type = "STT_FUNC"
                /\ info.size > 0
                /\ text_base <= info.address
                /\ info.address < text_base + text_len
             THEN <<[name |-> name, addr |-> info.address, size |-> info.size]>> \o rest
             ELSE rest

RECURSIVE InsertByAddr(_, _)
InsertByAddr(sorted, x) ==
    IF sorted = <<>> THEN <<x>>
    ELSE IF x.addr < sorted[1].addr THEN <<x>> \o sorted
    ELSE <<sorted[1]>> \o InsertByAddr(Tail(sorted), x)

RECURSIVE SortByAddr(_, _)
\* func_syms.sort(key=lambda x: x[1]): stable, equal addresses keep their order
SortByAddr(xs, sorted) ==
    IF xs = <<>> THEN sorted ELSE SortByAddr(Tail(xs), InsertByAddr(sorted, xs[1]))

RECURSIVE MapSymbolAddrs(_, _)
\* for name, info in symbols.items(): addr_to_name[info["address"]] = name
MapSymbolAddrs(symtab, a2n) ==
    IF symtab = <<>> THEN a2n
    ELSE MapSymbolAddrs(Tail(symtab), DictPut(a2n, symtab[1].val.address, symtab[1].key))

\* mutant of MapPltEntries: the stub addresses are not entered in the map
MapPltEntriesSkipped(stubs, a2n) == a2n

RECURSIVE MapPltEntries(_, _)
\* for name, addr in plt_entries.items(): if addr: addr_to_name[addr] = name
MapPltEntries(stubs, a2n) ==
    IF stubs = <<>> THEN a2n
    ELSE MapPltEntries(Tail(stubs),
                       IF stubs[1].val # 0
                       THEN DictPut(a2n, stubs[1].val, stubs[1].key)
                       ELSE a2n)

RECURSIVE MapStubSymbols(_, _, _, _, _, _)
\* symbols whose address lies in .plt or .plt.got are mapped under their clean name
MapStubSymbols(symtab, plt_base, plt_end, plt_got_base, plt_got_end, a2n) ==
    IF symtab = <<>> THEN a2n
    ELSE LET addr == symtab[1].val.address
             inStub == \/ (plt_base <= addr /\ addr < plt_end)
                       \/ (plt_got_base <= addr /\ addr < plt_got_end)
         IN  MapStubSymbols(Tail(symtab), plt_base, plt_end, plt_got_base, plt_got_end,
                            IF inStub
                            THEN DictPut(a2n, addr, SplitAtFirst(symtab[1].key))
                            ELSE a2n)

\* lines 221-246: the address -> name map used to resolve call targets
AddrToName(image, symtab, stubs) ==
    LET plt_base == IF HasSection(image, ".plt") THEN image.plt.sh_addr ELSE 0
        plt_end == IF HasSection(image, ".plt") THEN plt_base + image.plt.sh_size ELSE 0
        plt_got_base == IF HasSection(image, ".plt.got") THEN image.plt_got.sh_addr ELSE 0
        plt_got_end == IF HasSection(image, ".plt.got")
                       THEN plt_got_base + image.plt_got.sh_size ELSE 0
    IN  MapStubSymbols(symtab, plt_base, plt_end, plt_got_base, plt_got_end,
                       MapPltEntries(stubs, MapSymbolAddrs(symtab, <<>>)))

\* the first symbol, in dict order, at the target address, under its clean name
SymbolNameAt(symtab, target) ==
    LET at == {i \in 1..Len(symtab) : symtab[i].val.address = target}
    IN  IF at = {} THEN <<>>
        ELSE SplitAtFirst(symtab[CHOOSE i \in at : \A j \in at : i <= j].key)

\* lines 277-283: the name a call target resolves to, <<>> when there is none
TargetName(a2n, symtab, target) ==
    LET target_name == IF DictHas(a2n, target) THEN DictGet(a2n, target) ELSE <<>>
    IN  IF target_name = <<>> THEN SymbolNameAt(symtab, target) ELSE target_name

\* ro_data.find(b"\x00", ro_offset), 0-based, -1 when there is none
FindNul(data, from) ==
    LET at == {i \in from..(Len(data) - 1) : data[i + 1] = 0}
    IN  IF at = {} THEN 0 - 1 ELSE CHOOSE i \in at : \A j \in at : i <= j

Min(a, b) == IF a < b THEN a ELSE b

\* a lea that attaches the run whatever its length
LeaStringsAnyLength(image, address, insn) ==
    IF insn.mnemonic = "lea" /\ Len(insn.operands) >= 2
    THEN LET op == insn.operands[2]
             target_addr == address + insn.size + op.disp
         IN  IF op.type = X86_OP_MEM /\ op.base = X86_REG_RIP /\ HasSection(image, ".rodata")
             THEN LET ro_base == image.rodata.sh_addr
                      ro_end == ro_base + Len(image.rodata.data)
                      ro_offset == target_addr - ro_base
                      found == FindNul(image.rodata.data, ro_offset)
                      end == IF found = 0 - 1
                             THEN Min(ro_offset + 256, Len(image.rodata.data)) ELSE found
                      raw == SubSeq(image.rodata.data, ro_offset + 1, end)
                  IN  IF /\ ro_base <= target_addr
                         /\ target_addr < ro_end
                         /\ \A i \in 1..Len(raw) : raw[i] < 128
                      THEN <<StringReference(raw, target_addr)>>
                      ELSE <<>>
             ELSE <<>>
    ELSE <<>>

\* lines 291-318: the string a rip-relative lea refers to, as a list of 0 or 1 references
LeaStrings(image, address, insn) ==
    IF insn.mnemonic = "lea" /\ Len(insn.operands) >= 2
    THEN LET op == insn.operands[2]
             target_addr == address + insn.size + op.disp
         IN  IF op.type = X86_OP_MEM /\ op.base = X86_REG_RIP /\ HasSection(image, ".rodata")
             THEN LET ro_base == image.rodata.sh_addr
                      ro_end == ro_base + Len(image.rodata.data)
                      ro_offset == target_addr - ro_base
                      found == FindNul(image.rodata.data, ro_offset)
                      end == IF found = 0 - 1
                             THEN Min(ro_offset + 256, Len(image.rodata.data)) ELSE found
                      raw == SubSeq(image.rodata.data, ro_offset + 1, end)
                  IN  IF /\ ro_base <= target_addr
                         /\ target_addr < ro_end
                         /\ \A i \in 1..Len(raw) : raw[i] < 128
                         /\ Len(raw) >= 2
                      THEN <<StringReference(raw, target_addr)>>
                      ELSE <<>>
             ELSE <<>>
    ELSE <<>>

\* lines 271-289: the callee and the import reference of one instruction
CallTargets(insn) ==
    IF insn.mnemonic = "call" /\ insn.operands # <<>> /\ insn.operands[1].type = X86_OP_IMM
    THEN <<insn.operands[1].imm>>
    ELSE <<>>

CallImports(image, a2n, symtab, stubs, target) ==
    LET plt_base == IF HasSection(image, ".plt") THEN image.plt.sh_addr ELSE 0
        plt_end == IF HasSection(image, ".plt") THEN plt_base + image.plt.sh_size ELSE 0
        target_name == TargetName(a2n, symtab, target)
        clean == SplitAtFirst(target_name)
    IN  IF /\ target_name # <<>>
           /\ (clean \in DictKeys(stubs) \/ (plt_base <= target /\ target < plt_end))
        THEN <<ImportReference(clean, "", target)>>
        ELSE <<>>

RECURSIVE ScanInsnsResolvedOnly(_, _, _, _, _, _)
\* mutant of ScanInsns: a call target is recorded only when it resolves to a name
ScanInsnsResolvedOnly(decoded, image, a2n, symtab, stubs, acc) ==
    IF decoded = <<>> THEN acc
    ELSE LET d == decoded[1]
             targets == CallTargets(d.insn)
             imps == IF targets = <<>> THEN <<>>
                     ELSE CallImports(image, a2n, symtab, stubs, targets[1])
             kept == IF targets # <<>> /\ TargetName(a2n, symtab, targets[1]) # <<>>
                     THEN targets ELSE <<>>
         IN  ScanInsnsResolvedOnly(Tail(decoded), image, a2n, symtab, stubs,
                 [instructions |-> Append(acc.instructions,
                      InstructionArtifact(d.address, d.insn.mnemonic, Hex(d.insn.bytes))),
                  callees |-> acc.callees \o kept,
                  func_strings |-> acc.func_strings \o LeaStrings(image, d.address, d.insn),
                  func_imports |-> acc.func_imports \o imps])

RECURSIVE ScanInsns(_, _, _, _, _, _)
\* the loop over md.disasm(func_bytes, addr)
ScanInsns(decoded, image, a2n, symtab, stubs, acc) ==
    IF decoded = <<>> THEN acc
    ELSE LET d == decoded[1]
             targets == CallTargets(d.insn)
             imps == IF targets = <<>> THEN <<>>
                     ELSE CallImports(image, a2n, symtab, stubs, targets[1])
         IN  ScanInsns(Tail(decoded), image, a2n, symtab, stubs,
                 [instructions |-> Append(acc.instructions,
                      InstructionArtifact(d.address, d.insn.mnemonic, Hex(d.insn.bytes))),
                  callees |-> acc.callees \o targets,
                  func_strings |-> acc.func_strings \o LeaStrings(image, d.address, d.insn),
                  func_imports |-> acc.func_imports \o imps])

\* mutant of RecoverFunction: the block spans the decoded instructions only
RecoverFunctionDecodedSpan(image, a2n, symtab, stubs, f) ==
    LET decoded == Disasm(image.text, f.addr, f.size)
        scanned == ScanInsns(decoded, image, a2n, symtab, stubs,
                             [instructions |-> <<>>, callees |-> <<>>,
                              func_strings |-> <<>>, func_imports |-> <<>>])
        span == IF decoded = <<>> THEN 0
                ELSE Last(decoded).address + Last(decoded).insn.size - f.addr
        block == BasicBlockArtifact(f.addr, span, Len(scanned.instructions),
                                    scanned.instructions, <<>>)
    IN  FunctionArtifact(f.name, f.addr, f.size, <<block>>, scanned.callees,
                         scanned.func_strings, scanned.func_imports)

\* lines 254-339: the artifact of one function symbol
RecoverFunction(image, a2n, symtab, stubs, f) ==
    LET scanned == ScanInsns(Disasm(image.text, f.addr, f.size), image, a2n, symtab, stubs,
                             [instructions |-> <<>>, callees |-> <<>>,
                              func_strings |-> <<>>, func_imports |-> <<>>])
        block == BasicBlockArtifact(f.addr, f.size, Len(scanned.instructions),
                                    scanned.instructions, <<>>)
    IN  FunctionArtifact(f.name, f.addr, f.size, <<block>>, scanned.callees,
                         scanned.func_strings, scanned.func_imports)

RECURSIVE RecoverAll(_, _, _, _, _)
RecoverAll(func_syms, image, a2n, symtab, stubs) ==
    IF func_syms = <<>> THEN <<>>
    ELSE LET rest == RecoverAll(Tail(func_syms), image, a2n, symtab, stubs)
         IN  IF StartsWithAny(func_syms[1].name, CrtPrefixes) THEN rest
             ELSE <<RecoverFunction(image, a2n, symtab, stubs, func_syms[1])>> \o rest

\* _get_functions(elf, symbols, plt_entries)
GetFunctions(image, symtab, stubs) ==
    IF ~HasSection(image, ".text") THEN <<>>
    ELSE RecoverAll(SortByAddr(FuncSyms(symtab, image.text.sh_addr, TextLen(image.text)), <<>>),
                    image, AddrToName(image, symtab, stubs), symtab, stubs)

\* _get_arch(elf)
GetArch(machine) ==
    CASE machine = "EM_X86_64" -> "x86_64"
      [] machine = "EM_386" -> "x86"
      [] machine = "EM_ARM" -> "ARM"
      [] machine = "EM_AARCH64" -> "AArch64"
      [] machine = "EM_MIPS" -> "MIPS"
      [] machine = "EM_PPC" -> "PPC"
      [] machine = "EM_PPC64" -> "PPC64"
      [] OTHER -> machine

\* _get_file_type(elf)
GetFileType(et) ==
    CASE et = "ET_EXEC" -> "executable"
      [] et = "ET_DYN" -> "shared_object"
      [] et = "ET_REL" -> "relocatable"
      [] OTHER -> et

\* hashlib.sha256(file_bytes).hexdigest(): the digest stands for the bytes it is taken of
Sha256(bytes) == [sha256_of |-> bytes]

NoValue == [kind |-> "none"]
ReturnedNone == [kind |-> "None"]
Raised(exc) == [kind |-> "raised", exception |-> exc]
Returned(artifact) == [kind |-> "artifact", artifact |-> artifact]

PathStem == "sample"

\* load_elf(path) is called: lines 28-31
LoadElfCall ==
    /\ elf_pc = "idle"
    /\ IF path_kind = "missing"
       THEN elf_result' = ReturnedNone /\ elf_pc' = "done"
       ELSE elf_result' = elf_result /\ elf_pc' = "read"
    /\ UNCHANGED <<path_kind, disk, fault, file_bytes, elf, header, symbols, plt_entries,
                   strings, functions>>
    /\ UNCHANGED <<bbrVars, bccVars, pipeVars, auxVars>>

\* lines 33-34: file_bytes = path.read_bytes(), outside the try block
LoadElfReadBytes ==
    /\ elf_pc = "read"
    /\ IF path_kind = "regular"
       THEN /\ file_bytes' = disk
            /\ elf_result' = elf_result
            /\ elf_pc' = "open"
       ELSE /\ file_bytes' = file_bytes
            /\ elf_result' = Raised(IF path_kind = "directory" THEN "IsADirectoryError"
                                    ELSE "PermissionError")
            /\ elf_pc' = "done"
    /\ UNCHANGED <<path_kind, disk, fault, elf, header, symbols, plt_entries, strings, functions>>
    /\ UNCHANGED <<bbrVars, bccVars, pipeVars, auxVars>>

\* the except clause of lines 50-52
ElfStage(stage, next) ==
    IF fault = stage
    THEN elf_result' = ReturnedNone /\ elf_pc' = "done"
    ELSE elf_result' = elf_result /\ elf_pc' = next

\* lines 37-42: the file is opened again and its header parsed
LoadElfOpen ==
    /\ elf_pc = "open"
    /\ ElfStage("open", "symbols")
    /\ IF fault = "open"
       THEN UNCHANGED <<elf, header>>
       ELSE /\ elf' = disk
            /\ header' = [arch |-> GetArch(disk.e_machine),
                          endianness |-> IF disk.little_endian THEN "little" ELSE "big",
                          word_size |-> disk.elfclass,
                          file_type |-> GetFileType(disk.e_type)]
    /\ UNCHANGED <<path_kind, disk, fault, file_bytes, symbols, plt_entries, strings, functions>>
    /\ UNCHANGED <<bbrVars, bccVars, pipeVars, auxVars>>

\* line 45
LoadElfSymbols ==
    /\ elf_pc = "symbols"
    /\ ElfStage("symbols", "plt")
    /\ symbols' = IF fault = "symbols" THEN symbols ELSE GetSymbols(elf)
    /\ UNCHANGED <<path_kind, disk, fault, file_bytes, elf, header, plt_entries, strings, functions>>
    /\ UNCHANGED <<bbrVars, bccVars, pipeVars, auxVars>>

\* line 46
LoadElfPltImports ==
    /\ elf_pc = "plt"
    /\ ElfStage("plt", "strings")
    /\ plt_entries' = IF fault = "plt" THEN plt_entries ELSE GetPltImports(elf, symbols)
    /\ UNCHANGED <<path_kind, disk, fault, file_bytes, elf, header, symbols, strings, functions>>
    /\ UNCHANGED <<bbrVars, bccVars, pipeVars, auxVars>>

\* line 47
LoadElfStrings ==
    /\ elf_pc = "strings"
    /\ ElfStage("strings", "functions")
    /\ strings' = IF fault = "strings" THEN strings ELSE GetStrings(elf)
    /\ UNCHANGED <<path_kind, disk, fault, file_bytes, elf, header, symbols, plt_entries, functions>>
    /\ UNCHANGED <<bbrVars, bccVars, pipeVars, auxVars>>

\* line 48
LoadElfFunctions ==
    /\ elf_pc = "functions"
    /\ ElfStage("functions", "assemble")
    /\ functions' = IF fault = "functions" THEN functions
                    ELSE GetFunctions(elf, symbols, plt_entries)
    /\ UNCHANGED <<path_kind, disk, fault, file_bytes, elf, header, symbols, plt_entries, strings>>
    /\ UNCHANGED <<bbrVars, bccVars, pipeVars, auxVars>>

\* global_imports of lines 54-57
GlobalImports(entries) ==
    [i \in 1..Len(entries) |-> ImportReference(entries[i].key, "", entries[i].val)]

\* lines 54-77: the artifact is assembled and returned
LoadElfReturn ==
    /\ elf_pc = "assemble"
    /\ elf_result' = Returned(BinaryArtifact(PathStem, Sha256(file_bytes), header.arch,
                                             header.endianness, header.file_type,
                                             header.word_size, functions, strings,
                                             GlobalImports(plt_entries)))
    /\ elf_pc' = "done"
    /\ UNCHANGED <<path_kind, disk, fault, file_bytes, elf, header, symbols, plt_entries,
                   strings, functions>>
    /\ UNCHANGED <<bbrVars, bccVars, pipeVars, auxVars>>

ElfIdle ==
    /\ elf_pc = "idle"
    /\ file_bytes = NoValue
    /\ elf = NoValue
    /\ header = NoValue
    /\ symbols = <<>>
    /\ plt_entries = <<>>
    /\ strings = <<>>
    /\ functions = <<>>
    /\ elf_result = NoValue

NextElf ==
    \/ LoadElfCall
    \/ LoadElfReadBytes
    \/ LoadElfOpen
    \/ LoadElfSymbols
    \/ LoadElfPltImports
    \/ LoadElfStrings
    \/ LoadElfFunctions
    \/ LoadElfReturn

\* another process replaces the content of the file while load_elf is running; the
\* container object opened at line 38 keeps the content it was opened on
RewriteFile(image) ==
    /\ elf_pc \notin {"idle", "done"}
    /\ path_kind = "regular"
    /\ image # disk
    /\ disk' = image
    /\ UNCHANGED <<path_kind, fault, elf_pc, file_bytes, elf, header, symbols, plt_entries,
                   strings, functions, elf_result>>
    /\ UNCHANGED <<bbrVars, bccVars, pipeVars, auxVars>>

(* ------------------------------------------------------------------ *)
(* extraction/bcc_loader.py: the control flow of load_bcc_file; what    *)
(* Blackfyre reads from the container is not modelled, the converted    *)
(* artifact has no functions                                            *)
(* ------------------------------------------------------------------ *)
\* load_bcc_file(path) is called: lines 25-28
LoadBccCall ==
    /\ bcc_pc = "idle"
    /\ IF path_kind = "missing" \/ ~suffix_is_bcc
       THEN bcc_result' = ReturnedNone /\ bcc_pc' = "done"
       ELSE bcc_result' = bcc_result /\ bcc_pc' = "context"
    /\ UNCHANGED <<suffix_is_bcc, blackfyre_installed, bcc_fault>>
    /\ UNCHANGED <<bbrVars, elfVars, pipeVars, auxVars>>

\* what BinaryContext(str(path)) can do: on a path that is no readable file the
\* library may raise or may defer the read
ContextOutcomes ==
    IF ~blackfyre_installed THEN {"ImportError"}
    ELSE IF path_kind # "regular" THEN {"Exception", "ok"}
    ELSE IF bcc_fault = "context" THEN {"Exception"}
    ELSE {"ok"}

\* lines 30-39: the try block and its two except clauses
LoadBccContext ==
    /\ bcc_pc = "context"
    /\ \E outcome \in ContextOutcomes :
          IF outcome = "ImportError"
          THEN bcc_result' = bcc_result /\ bcc_pc' = "fallback"
          ELSE IF outcome = "Exception"
          THEN bcc_result' = ReturnedNone /\ bcc_pc' = "done"
          ELSE bcc_result' = bcc_result /\ bcc_pc' = "convert"
    /\ UNCHANGED <<suffix_is_bcc, blackfyre_installed, bcc_fault>>
    /\ UNCHANGED <<bbrVars, elfVars, pipeVars, auxVars>>

\* _load_bcc_fallback(path, lift_vex), called from the except clause
LoadBccFallback ==
    /\ bcc_pc = "fallback"
    /\ bcc_result' =
          IF path_kind = "regular"
          THEN Returned(BinaryArtifact(PathStem, Sha256(disk), "unknown", "little", "ELF",
                                       64, <<>>, <<>>, <<>>))
          ELSE Raised(IF path_kind = "directory" THEN "IsADirectoryError"
                      ELSE "PermissionError")
    /\ bcc_pc' = "done"
    /\ UNCHANGED <<suffix_is_bcc, blackfyre_installed, bcc_fault>>
    /\ UNCHANGED <<bbrVars, elfVars, pipeVars, auxVars>>

\* _convert_blackfyre_context(bcc, path, lift_vex), called after the try block
LoadBccConvert ==
    /\ bcc_pc = "convert"
    /\ bcc_result' =
          IF path_kind # "regular"
          THEN Raised(IF path_kind = "directory" THEN "IsADirectoryError"
                      ELSE "PermissionError")
          ELSE IF bcc_fault = "convert" THEN Raised("AttributeError")
          ELSE Returned(BinaryArtifact(PathStem, Sha256(disk), "unknown", "little",
                                       "unknown", 64, <<>>, <<>>, <<>>))
    /\ bcc_pc' = "done"
    /\ UNCHANGED <<suffix_is_bcc, blackfyre_installed, bcc_fault>>
    /\ UNCHANGED <<bbrVars, elfVars, pipeVars, auxVars>>

BccIdle == bcc_pc = "idle" /\ bcc_result = NoValue

NextBcc ==
    \/ LoadBccCall
    \/ LoadBccContext
    \/ LoadBccFallback
    \/ LoadBccConvert

(* ------------------------------------------------------------------ *)
(* analysis/bbr.py                                                     *)
(* ------------------------------------------------------------------ *)
DefaultIterations == 20
DefaultDamping == FDiv(FInt(85), FInt(100))

Range(f) == {f[x] : x \in DOMAIN f}

SeqsUpTo(S, n) == UNION {[1..k -> S] : k \in 0..n}

RECURSIVE SortedSeq(_)
\* sorted(nodes)
SortedSeq(S) ==
    IF S = {} THEN <<>>
    ELSE LET lo == CHOOSE x \in S : \A y \in S : x <= y
         IN  <<lo>> \o SortedSeq(S \ {lo})

\* idx = {addr: i for i, addr in enumerate(node_list)}, 1-based
Idx(nl, addr) == CHOOSE i \in 1..Len(nl) : nl[i] = addr

\* _extract_cfg: the node set and the edge list of the two queries
ExtractedNodes(rows) == Range(rows)
ExtractedEdges(rows) == rows

RECURSIVE AddEdgesTransposed(_, _, _, _)
\* mutant of AddEdges: the edge is entered as M[i_src][i_tgt]
AddEdgesTransposed(es, nl, m, od) ==
    IF es = <<>> THEN [M |-> m, out_degree |-> od]
    ELSE LET src == es[1][1]
             tgt == es[1][2]
             in == src \in Range(nl) /\ tgt \in Range(nl)
             i_src == Idx(nl, src)
             i_tgt == Idx(nl, tgt)
         IN  IF in
             THEN AddEdgesTransposed(Tail(es), nl,
                           [m EXCEPT ![i_src][i_tgt] = FOne],
                           [od EXCEPT ![i_src] = FAdd(od[i_src], FOne)])
             ELSE AddEdgesTransposed(Tail(es), nl, m, od)

RECURSIVE AddEdgesKeepFirst(_, _, _, _)
\* an edge loop that enters only the first out-edge it meets for each source
AddEdgesKeepFirst(es, nl, m, od) ==
    IF es = <<>> THEN [M |-> m, out_degree |-> od]
    ELSE LET src == es[1][1]
             tgt == es[1][2]
             in == src \in Range(nl) /\ tgt \in Range(nl)
             i_src == Idx(nl, src)
             i_tgt == Idx(nl, tgt)
         IN  IF in /\ od[i_src] = FZero
             THEN AddEdgesKeepFirst(Tail(es), nl,
                           [m EXCEPT ![i_tgt][i_src] = FOne],
                           [od EXCEPT ![i_src] = FAdd(od[i_src], FOne)])
             ELSE AddEdgesKeepFirst(Tail(es), nl, m, od)

RECURSIVE AddEdges(_, _, _, _)
\* the loop over edges: M[i_tgt][i_src] = 1.0; out_degree[i_src] += 1.0
AddEdges(es, nl, m, od) ==
    IF es = <<>> THEN [M |-> m, out_degree |-> od]
    ELSE LET src == es[1][1]
             tgt == es[1][2]
             in == src \in Range(nl) /\ tgt \in Range(nl)
             i_src == Idx(nl, src)
             i_tgt == Idx(nl, tgt)
         IN  IF in
             THEN AddEdges(Tail(es), nl,
                           [m EXCEPT ![i_tgt][i_src] = FOne],
                           [od EXCEPT ![i_src] = FAdd(od[i_src], FOne)])
             ELSE AddEdges(Tail(es), nl, m, od)

\* the loop over columns: M[:, j] /= out_degree[j], or 1.0 / n for a dangling node
NormalizeColumns(m, od, n) ==
    [i \in 1..n |-> [j \in 1..n |->
        IF FLess(FZero, od[j]) THEN FDiv(m[i][j], od[j])
        ELSE FDiv(FOne, FInt(n))]]

\* the out-link matrix of lines 36-53
BuildMatrix(nl, es) ==
    LET n == Len(nl)
        zeroM == [i \in 1..n |-> [j \in 1..n |-> FZero]]
        zeroD == [j \in 1..n |-> FZero]
        acc == AddEdges(es, nl, zeroM, zeroD)
    IN  [M |-> NormalizeColumns(acc.M, acc.out_degree, n), out_degree |-> acc.out_degree]

\* np.ones(n) / n
Uniform(n) == [i \in 1..n |-> FDiv(FOne, FInt(n))]

RECURSIVE DotFromSkippingLast(_, _, _, _)
\* mutant of DotFrom: the product stops one column early
DotFromSkippingLast(row, v, j, acc) ==
    IF j >= Len(v) THEN acc
    ELSE DotFromSkippingLast(row, v, j + 1, FAdd(acc, FMul(row[j], v[j])))

RECURSIVE DotFrom(_, _, _, _)
\* row @ v, accumulated left to right
DotFrom(row, v, j, acc) ==
    IF j > Len(v) THEN acc
    ELSE DotFrom(row, v, j + 1, FAdd(acc, FMul(row[j], v[j])))

\* damping_factor * M @ rank + (1 - damping_factor) * teleport
RankUpdate(m, r, tp, d) ==
    LET n == Len(r)
        dM == [i \in 1..n |-> [j \in 1..n |-> FMul(d, m[i][j])]]
        rest == FSub(FOne, d)
    IN  [i \in 1..n |-> FAdd(DotFrom(dM[i], r, 1, FZero), FMul(rest, tp[i]))]

RECURSIVE SumFrom(_, _, _)
\* rank.sum(), and sum(scores.values()), left to right
SumFrom(v, j, acc) ==
    IF j > Len(v) THEN acc ELSE SumFrom(v, j + 1, FAdd(acc, v[j]))

VecSum(v) == SumFrom(v, 1, FZero)

\* rank_sum = rank.sum(); if rank_sum > 0: rank /= rank_sum
NormalizeRank(r) ==
    LET rank_sum == VecSum(r)
    IN  IF FLess(FZero, rank_sum) THEN [i \in 1..Len(r) |-> FDiv(r[i], rank_sum)] ELSE r

IterationChoices == {0, 1, 2, DefaultIterations}
DampingChoices == {FZero, DefaultDamping, FOne}

\* compute_bbr(driver, sha256, iterations, damping_factor) is called
ComputeBbrCall(its, ds) ==
    /\ bbr_pc = "idle"
    /\ \E it \in its, d \in ds :
          /\ iterations' = it
          /\ damping_factor' = d
    /\ bbr_pc' = "extract"
    /\ UNCHANGED <<block_rows, edge_rows, nodes, edges, node_list, out_degree, M,
                   rank, teleport, iter_done, scores>>
    /\ UNCHANGED <<elfVars, bccVars, pipeVars, auxVars>>

\* edges, nodes = _extract_cfg(driver, sha256)
ExtractCfg ==
    /\ bbr_pc = "extract"
    /\ nodes' = ExtractedNodes(block_rows)
    /\ edges' = ExtractedEdges(edge_rows)
    /\ bbr_pc' = "check"
    /\ UNCHANGED <<block_rows, edge_rows, iterations, damping_factor, node_list,
                   out_degree, M, rank, teleport, iter_done, scores>>
    /\ UNCHANGED <<elfVars, bccVars, pipeVars, auxVars>>

\* if not nodes: return {}
ReturnEmpty ==
    /\ bbr_pc = "check"
    /\ nodes = {}
    /\ scores' = <<>>
    /\ bbr_pc' = "done"
    /\ UNCHANGED <<block_rows, edge_rows, iterations, damping_factor, nodes, edges,
                   node_list, out_degree, M, rank, teleport, iter_done>>
    /\ UNCHANGED <<elfVars, bccVars, pipeVars, auxVars>>

\* mutant of BuildAdjacency: the matrix is built for an empty node set as well
BuildAdjacencyUnguarded ==
    /\ bbr_pc = "check"
    /\ LET nl == SortedSeq(nodes)
           b == BuildMatrix(nl, edges)
       IN  /\ node_list' = nl
           /\ M' = b.M
           /\ out_degree' = b.out_degree
           /\ rank' = Uniform(Len(nl))
           /\ teleport' = Uniform(Len(nl))
    /\ iter_done' = 0
    /\ bbr_pc' = "iterate"
    /\ UNCHANGED <<block_rows, edge_rows, iterations, damping_factor, nodes, edges, scores>>
    /\ UNCHANGED <<elfVars, bccVars, pipeVars, auxVars>>

\* lines 31-57: node_list, idx, the matrix, the initial rank and the teleport vector
BuildAdjacency ==
    /\ bbr_pc = "check"
    /\ nodes # {}
    /\ LET nl == SortedSeq(nodes)
           b == BuildMatrix(nl, edges)
       IN  /\ node_list' = nl
           /\ M' = b.M
           /\ out_degree' = b.out_degree
           /\ rank' = Uniform(Len(nl))
           /\ teleport' = Uniform(Len(nl))
    /\ iter_done' = 0
    /\ bbr_pc' = "iterate"
    /\ UNCHANGED <<block_rows, edge_rows, iterations, damping_factor, nodes, edges, scores>>
    /\ UNCHANGED <<elfVars, bccVars, pipeVars, auxVars>>

\* one pass of `for _ in range(iterations)`
PowerIteration ==
    /\ bbr_pc = "iterate"
    /\ iter_done < iterations
    /\ rank' = RankUpdate(M, rank, teleport, damping_factor)
    /\ iter_done' = iter_done + 1
    /\ UNCHANGED <<block_rows, edge_rows, bbr_pc, iterations, damping_factor, nodes,
                   edges, node_list, out_degree, M, teleport, scores>>
    /\ UNCHANGED <<elfVars, bccVars, pipeVars, auxVars>>

\* lines 62-69: normalize and return the scores
ReturnScores ==
    /\ bbr_pc = "iterate"
    /\ iter_done = iterations
    /\ LET r == NormalizeRank(rank)
       IN  /\ rank' = r
           /\ scores' = [a \in nodes |-> r[Idx(node_list, a)]]
    /\ bbr_pc' = "done"
    /\ UNCHANGED <<block_rows, edge_rows, iterations, damping_factor, nodes, edges,
                   node_list, out_degree, M, teleport, iter_done>>
    /\ UNCHANGED <<elfVars, bccVars, pipeVars, auxVars>>

Addresses == 1..MaxAddr
\* the rows a store can return: blocks in ascending order, edges in any order
SortedBlockRows(A) == {SortedSeq(S) : S \in SUBSET A}

BbrIdle ==
    /\ bbr_pc = "idle"
    /\ iterations = 0
    /\ damping_factor = FZero
    /\ nodes = {}
    /\ edges = <<>>
    /\ node_list = <<>>
    /\ out_degree = <<>>
    /\ M = <<>>
    /\ rank = <<>>
    /\ teleport = <<>>
    /\ iter_done = 0
    /\ scores = <<>>

(* ------------------------------------------------------------------ *)
(* graph/loader.py, write_bbr_scores of analysis/bbr.py and the frozen  *)
(* dataclasses of extraction/binary_artifact.py                         *)
(*                                                                     *)
(* A node is its key (the properties MERGE matches on) and its other    *)
(* properties; a relationship is its type and the keys of its ends.     *)
(* The store starts empty and takes one load.                           *)
(* ------------------------------------------------------------------ *)
DefaultBatchSize == 1000
WriteBatchSize == 500

EmptyGraph ==
    [binary_files |-> <<>>, function_nodes |-> <<>>, basic_blocks |-> <<>>,
     instruction_nodes |-> <<>>, string_nodes |-> <<>>, import_nodes |-> <<>>,
     rels |-> <<>>]

Node(key, props) == [key |-> key, props |-> props]

Rel(type, source, target) == [type |-> type, source |-> source, target |-> target]

\* {address: ..., binary_sha256: ...}
AddrKey(address, sha256) == [address |-> address, binary_sha256 |-> sha256]

ElfReturned == elf_pc = "done" /\ elf_result.kind = "artifact"

Artifact == elf_result.artifact

RECURSIVE Chunks(_, _)
\* _batch_unwind: rows[i : i + batch_size] for i in range(0, len(rows), batch_size)
Chunks(rows, batch_size) ==
    IF rows = <<>> THEN <<>>
    ELSE LET n == Min(batch_size, Len(rows))
         IN  <<SubSeq(rows, 1, n)>> \o Chunks(SubSeq(rows, n + 1, Len(rows)), batch_size)

\* the rows in the order the batches submit them
BatchUnwind(rows, batch_size) == Flatten(Chunks(rows, batch_size))

\* the nodes MATCH finds for a key
MatchCount(store, key) == Cardinality({i \in Indexes(store) : store[i].key = key})

\* SET on a node: the named properties change, the others stay
SetProps(old, new) ==
    [k \in DOMAIN old \cup DOMAIN new |-> IF k \in DOMAIN new THEN new[k] ELSE old[k]]

\* MERGE or CREATE of one node, followed by SET
PutNode(store, node, merge) ==
    IF merge /\ MatchCount(store, node.key) > 0
    THEN [i \in Indexes(store) |->
             IF store[i].key = node.key
             THEN [store[i] EXCEPT !.props = SetProps(@, node.props)]
             ELSE store[i]]
    ELSE Append(store, node)

\* MERGE or CREATE of a relationship between the matched end nodes
PutRel(rels, rel, merge, pairs) ==
    LET copies == IF merge
                  THEN IF pairs > 0 /\ \A i \in Indexes(rels) : rels[i] # rel THEN 1 ELSE 0
                  ELSE pairs
    IN  rels \o [k \in 1..copies |-> rel]

RECURSIVE UnwindNodes(_, _, _)
\* UNWIND $rows: op (n {key}) SET ...
UnwindNodes(store, rows, merge) ==
    IF rows = <<>> THEN store
    ELSE UnwindNodes(PutNode(store, rows[1], merge), Tail(rows), merge)

RECURSIVE UnwindOwned(_, _, _, _, _)
\* UNWIND $rows: op (n {key}) SET ... WITH n, r MATCH (parent) op (parent)-[type]->(n)
UnwindOwned(acc, rows, merge, parents, type) ==
    IF rows = <<>> THEN acc
    ELSE LET r == rows[1]
             store == PutNode(acc.nodes, r.node, merge)
             own == IF merge THEN MatchCount(store, r.node.key) ELSE 1
             rel == Rel(type, r.parent, r.node.key)
         IN  UnwindOwned([nodes |-> store,
                          rels |-> PutRel(acc.rels, rel, merge,
                                          own * MatchCount(parents, r.parent))],
                         Tail(rows), merge, parents, type)

RECURSIVE UnwindLinks(_, _, _, _, _, _)
\* UNWIND $rows: MATCH (a) MATCH (b) op (a)-[type]->(b)
UnwindLinks(rels, rows, merge, sources, targets, type) ==
    IF rows = <<>> THEN rels
    ELSE LET r == rows[1]
             pairs == MatchCount(sources, r.source) * MatchCount(targets, r.target)
         IN  UnwindLinks(PutRel(rels, Rel(type, r.source, r.target), merge, pairs),
                         Tail(rows), merge, sources, targets, type)

\* lines 44-53
FuncRows(a) ==
    [i \in Indexes(a.functions) |->
        LET f == a.functions[i]
        IN  [node |-> Node(AddrKey(f.address, a.sha256),
                           [name |-> f.name, size |-> f.size,
                            decompiled_code |-> f.decompiled_code]),
             parent |-> [sha256 |-> a.sha256]]]

\* lines 68-77
CallRows(a) ==
    Flatten([i \in Indexes(a.functions) |->
        LET f == a.functions[i]
        IN  [k \in Indexes(f.callees) |->
                [source |-> AddrKey(f.address, a.sha256),
                 target |-> AddrKey(f.callees[k], a.sha256)]]])

\* lines 91-102
BbRows(a) ==
    Flatten([i \in Indexes(a.functions) |->
        LET f == a.functions[i]
        IN  [k \in Indexes(f.basic_blocks) |->
                LET bb == f.basic_blocks[k]
                IN  [node |-> Node(AddrKey(bb.address, a.sha256),
                                   [size |-> bb.size,
                                    num_instructions |-> bb.num_instructions]),
                     parent |-> AddrKey(f.address, a.sha256)]]])

\* the basic blocks of the artifact, function by function
AllBlocks(a) == Flatten([i \in Indexes(a.functions) |-> a.functions[i].basic_blocks])

\* lines 118-128
FlowRows(a) ==
    LET blocks == AllBlocks(a)
    IN  Flatten([i \in Indexes(blocks) |->
            [k \in Indexes(blocks[i].successors) |->
                [source |-> AddrKey(blocks[i].address, a.sha256),
                 target |-> AddrKey(blocks[i].successors[k], a.sha256)]]])

\* lines 142-156
InsnRows(a) ==
    LET blocks == AllBlocks(a)
    IN  Flatten([i \in Indexes(blocks) |->
            [k \in Indexes(blocks[i].instructions) |->
                LET insn == blocks[i].instructions[k]
                IN  [node |-> Node(AddrKey(insn.address, a.sha256),
                                   [mnemonic |-> insn.mnemonic, opcode |-> insn.opcode,
                                    category |-> insn.category, vex_ir |-> insn.vex_ir]),
                     parent |-> AddrKey(blocks[i].address, a.sha256)]]])

\* (s.value, s.address) of a string, (imp.name, imp.address) of an import
SeenKey(ref) ==
    IF "value" \in DOMAIN ref THEN <<ref.value, ref.address>> ELSE <<ref.name, ref.address>>

RECURSIVE Unseen(_, _, _)
\* the rows of the artifact-level list whose key no function gave
Unseen(refs, seen, a) ==
    IF refs = <<>> THEN <<>>
    ELSE (IF SeenKey(refs[1]) \in seen THEN <<>>
          ELSE <<[ref |-> refs[1], sha256 |-> a.sha256, func_address |-> <<>>]>>)
             \o Unseen(Tail(refs), seen, a)

\* lines 173-196; func_address is <<address>>, or <<>> for None
StrRows(a) ==
    LET linked == Flatten([i \in Indexes(a.functions) |->
                     [k \in Indexes(a.functions[i].strings) |->
                         [ref |-> a.functions[i].strings[k], sha256 |-> a.sha256,
                          func_address |-> <<a.functions[i].address>>]]])
        all_strings == {SeenKey(linked[i].ref) : i \in Indexes(linked)}
    IN  linked \o Unseen(a.strings, all_strings, a)

\* lines 222-246
ImpRows(a) ==
    LET linked == Flatten([i \in Indexes(a.functions) |->
                     [k \in Indexes(a.functions[i].imports) |->
                         [ref |-> a.functions[i].imports[k], sha256 |-> a.sha256,
                          func_address |-> <<a.functions[i].address>>]]])
        all_imports == {SeenKey(linked[i].ref) : i \in Indexes(linked)}
    IN  linked \o Unseen(a.imports, all_imports, a)

StringNodes(rows) ==
    [i \in Indexes(rows) |->
        Node(AddrKey(rows[i].ref.address, rows[i].sha256), [value |-> rows[i].ref.value])]

ImportNodes(rows) ==
    [i \in Indexes(rows) |->
        Node(AddrKey(rows[i].ref.address, rows[i].sha256),
             [name |-> rows[i].ref.name, library |-> rows[i].ref.library])]

\* [r for r in rows if r["func_address"] is not None], as link rows
FuncLinkRows(rows) ==
    Flatten([i \in Indexes(rows) |->
        IF rows[i].func_address = <<>> THEN <<>>
        ELSE <<[source |-> AddrKey(rows[i].func_address[1], rows[i].sha256),
                target |-> AddrKey(rows[i].ref.address, rows[i].sha256)]>>])

\* GraphLoader.load_binary(artifact, batch_size, merge): the store afterwards
LoadBinaryGraph(g, a, batch_size, merge) ==
    LET file == Node([sha256 |-> a.sha256],
                     [name |-> a.name, architecture |-> a.architecture,
                      endianness |-> a.endianness, file_type |-> a.file_type,
                      word_size |-> a.word_size])
        files == PutNode(g.binary_files, file, merge)
        funcs == UnwindOwned([nodes |-> g.function_nodes, rels |-> g.rels],
                             BatchUnwind(FuncRows(a), batch_size), merge, files, "DEFINES")
        calls == UnwindLinks(funcs.rels, BatchUnwind(CallRows(a), batch_size), merge,
                             funcs.nodes, funcs.nodes, "CALLS")
        blocks == UnwindOwned([nodes |-> g.basic_blocks, rels |-> calls],
                              BatchUnwind(BbRows(a), batch_size), merge, funcs.nodes,
                              "CONTAINS")
        flows == UnwindLinks(blocks.rels, BatchUnwind(FlowRows(a), batch_size), merge,
                             blocks.nodes, blocks.nodes, "FLOW_TO")
        insns == UnwindOwned([nodes |-> g.instruction_nodes, rels |-> flows],
                             BatchUnwind(InsnRows(a), batch_size), merge, blocks.nodes,
                             "CONTAINS")
        str_rows == StrRows(a)
        strs == UnwindNodes(g.string_nodes, BatchUnwind(StringNodes(str_rows), batch_size),
                            merge)
        str_rels == UnwindLinks(insns.rels, BatchUnwind(FuncLinkRows(str_rows), batch_size),
                                merge, funcs.nodes, strs, "REFERENCES_STRING")
        imp_rows == ImpRows(a)
        imps == UnwindNodes(g.import_nodes, BatchUnwind(ImportNodes(imp_rows), batch_size),
                            merge)
        imp_rels == UnwindLinks(str_rels, BatchUnwind(FuncLinkRows(imp_rows), batch_size),
                                merge, funcs.nodes, imps, "REFERENCES_IMPORT")
    IN  [binary_files |-> files, function_nodes |-> funcs.nodes,
         basic_blocks |-> blocks.nodes, instruction_nodes |-> insns.nodes,
         string_nodes |-> strs, import_nodes |-> imps, rels |-> imp_rels]

\* the stats dict load_binary returns
LoadStats(a) ==
    [functions |-> Len(FuncRows(a)), calls |-> Len(CallRows(a)),
     basic_blocks |-> Len(BbRows(a)), flows |-> Len(FlowRows(a)),
     instructions |-> Len(InsnRows(a)), strings |-> Len(StrRows(a)),
     imports |-> Len(ImpRows(a))]

\* _extract_cfg's first query on the store
BlockRowsOf(g) == [i \in Indexes(g.basic_blocks) |-> g.basic_blocks[i].key.address]

\* _extract_cfg's second query on the store
EdgeRowsOf(g) ==
    Flatten([i \in Indexes(g.rels) |->
        IF g.rels[i].type = "FLOW_TO"
        THEN <<<<g.rels[i].source.address, g.rels[i].target.address>>>>
        ELSE <<>>])

BatchSizes == {1, 2, DefaultBatchSize}

\* loader.load_binary(art, batch_size=batch_size, merge=merge) on the artifact
\* load_elf returned
LoadBinaryCall(batch_size, merge) ==
    /\ ElfReturned
    /\ graph.binary_files = <<>>
    /\ bbr_pc = "idle"
    /\ graph' = LoadBinaryGraph(graph, Artifact, batch_size, merge)
    /\ load_stats' = LoadStats(Artifact)
    /\ block_rows' = BlockRowsOf(graph')
    /\ edge_rows' = EdgeRowsOf(graph')
    /\ UNCHANGED <<bbr_pc, iterations, damping_factor, nodes, edges, node_list,
                   out_degree, M, rank, teleport, iter_done, scores>>
    /\ UNCHANGED <<setattr_outcome, elfVars, bccVars, auxVars>>

\* load_binary with any batch size, merging or creating
GraphLoadBinary == \E batch_size \in BatchSizes, merge \in BOOLEAN : LoadBinaryCall(batch_size, merge)

\* rows = [{"address": addr, "score": score} for addr, score in scores.items()]
ScoreRows(result, order) ==
    [i \in Indexes(order) |-> [address |-> order[i], score |-> result[order[i]]]]

RECURSIVE SetScoresIfAbsent(_, _, _)
\* a write-back that leaves a block alone once it has a score
SetScoresIfAbsent(store, rows, sha256) ==
    IF rows = <<>> THEN store
    ELSE SetScoresIfAbsent([i \in Indexes(store) |->
                       IF /\ store[i].key = AddrKey(rows[1].address, sha256)
                          /\ "bbr_score" \notin DOMAIN store[i].props
                       THEN [store[i] EXCEPT
                                !.props = SetProps(@, [bbr_score |-> rows[1].score])]
                       ELSE store[i]],
                   Tail(rows), sha256)

RECURSIVE SetScores(_, _, _)
\* MATCH (bb:BasicBlock {address: r.address, binary_sha256: $sha256})
\* SET bb.bbr_score = r.score
SetScores(store, rows, sha256) ==
    IF rows = <<>> THEN store
    ELSE SetScores([i \in Indexes(store) |->
                       IF store[i].key = AddrKey(rows[1].address, sha256)
                       THEN [store[i] EXCEPT
                                !.props = SetProps(@, [bbr_score |-> rows[1].score])]
                       ELSE store[i]],
                   Tail(rows), sha256)

\* write_bbr_scores(driver, sha256, scores)
WriteBbrScores ==
    /\ bbr_pc = "done"
    /\ graph.binary_files # <<>>
    /\ graph' = [graph EXCEPT !.basic_blocks =
                    SetScores(@, BatchUnwind(ScoreRows(scores, node_list), WriteBatchSize),
                              Artifact.sha256)]
    /\ bbr_pc' = "written"
    /\ UNCHANGED <<block_rows, edge_rows, iterations, damping_factor, nodes, edges,
                   node_list, out_degree, M, rank, teleport, iter_done, scores>>
    /\ UNCHANGED <<load_stats, setattr_outcome, elfVars, bccVars, auxVars>>

\* the artifact values of a tree: the class and the position of each
ArtifactValues(a) ==
    {[cls |-> "BinaryArtifact", i |-> 0, j |-> 0, k |-> 0]}
    \cup {[cls |-> "FunctionArtifact", i |-> i, j |-> 0, k |-> 0] :
              i \in Indexes(a.functions)}
    \cup UNION {{[cls |-> "BasicBlockArtifact", i |-> i, j |-> j, k |-> 0] :
                     j \in Indexes(a.functions[i].basic_blocks)} :
                 i \in Indexes(a.functions)}
    \cup UNION {UNION {{[cls |-> "InstructionArtifact", i |-> i, j |-> j, k |-> k] :
                            k \in Indexes(a.functions[i].basic_blocks[j].instructions)} :
                        j \in Indexes(a.functions[i].basic_blocks)} :
                 i \in Indexes(a.functions)}
    \cup {[cls |-> "StringReference", i |-> 0, j |-> 0, k |-> k] : k \in Indexes(a.strings)}
    \cup {[cls |-> "ImportReference", i |-> 0, j |-> 0, k |-> k] : k \in Indexes(a.imports)}

ObjectAt(a, p) ==
    CASE p.cls = "BinaryArtifact" -> a
      [] p.cls = "FunctionArtifact" -> a.functions[p.i]
      [] p.cls = "BasicBlockArtifact" -> a.functions[p.i].basic_blocks[p.j]
      [] p.cls = "InstructionArtifact" -> a.functions[p.i].basic_blocks[p.j].instructions[p.k]
      [] p.cls = "StringReference" -> a.strings[p.k]
      [] p.cls = "ImportReference" -> a.imports[p.k]

\* the tree, should the value at the position become obj
WithObjectAt(a, p, obj) ==
    CASE p.cls = "BinaryArtifact" -> obj
      [] p.cls = "FunctionArtifact" -> [a EXCEPT !.functions[p.i] = obj]
      [] p.cls = "BasicBlockArtifact" -> [a EXCEPT !.functions[p.i].basic_blocks[p.j] = obj]
      [] p.cls = "InstructionArtifact" ->
            [a EXCEPT !.functions[p.i].basic_blocks[p.j].instructions[p.k] = obj]
      [] p.cls = "StringReference" -> [a EXCEPT !.strings[p.k] = obj]
      [] p.cls = "ImportReference" -> [a EXCEPT !.imports[p.k] = obj]

\* mutant of FrozenSetattr: a dataclass that is not frozen
PlainSetattr(obj, fld, value) == [obj |-> [obj EXCEPT ![fld] = value], raised |-> "none"]

\* the __setattr__ that @dataclass(frozen=True) generates
FrozenSetattr(obj, fld, value) == [obj |-> obj, raised |-> "FrozenInstanceError"]

IntFields == {"address", "size", "num_instructions", "word_size"}

\* obj.fld = value, on an artifact value of the returned tree
AssignField ==
    /\ ElfReturned
    /\ \E p \in ArtifactValues(Artifact) :
          \E fld \in IntFields \cap DOMAIN ObjectAt(Artifact, p), value \in {0, 1} :
                LET r == FrozenSetattr(ObjectAt(Artifact, p), fld, value)
                IN  /\ elf_result' = Returned(WithObjectAt(Artifact, p, r.obj))
                    /\ setattr_outcome' = r.raised
    /\ UNCHANGED <<path_kind, disk, fault, elf_pc, file_bytes, elf, header, symbols,
                   plt_entries, strings, functions>>
    /\ UNCHANGED <<graph, load_stats, bbrVars, bccVars, auxVars>>

NoPipeline ==
    /\ graph = EmptyGraph
    /\ load_stats = NoValue
    /\ setattr_outcome = "none"

(* ------------------------------------------------------------------ *)
(* write_bbr_scores of analysis/bbr.py, called by two callers for one   *)
(* binary.  Each session.run of a chunk is one transaction.  The code   *)
(* cuts the rows into chunks of 500; the stores of the model hold at    *)
(* most MaxAddr blocks, so the chunk is WriteBackChunkRows rows here.   *)
(* ------------------------------------------------------------------ *)
Writers == {1, 2}

StoredSha == Sha256(<<1>>)
OtherSha == Sha256(<<2>>)

\* the BasicBlock nodes of the binary, and one block of another binary
StoredBlocks(addrs) ==
    [i \in Indexes(SortedSeq(addrs)) |->
        Node(AddrKey(SortedSeq(addrs)[i], StoredSha), [size |-> 1, num_instructions |-> 1])]
    \o <<Node(AddrKey(1, OtherSha), [size |-> 1, num_instructions |-> 1])>>

\* rows = [...] and "with driver.session() as session"
WriteBackStart(w) ==
    /\ wb_pc[w] = "idle"
    /\ wb_pc' = [wb_pc EXCEPT ![w] = "writing"]
    /\ wb_rows' = [wb_rows EXCEPT ![w] = ScoreRows(wb_arg[w], SortedSeq(DOMAIN wb_arg[w]))]
    /\ wb_done_before' = [wb_done_before EXCEPT ![w] = {v \in Writers : wb_pc[v] = "done"}]
    /\ UNCHANGED <<wb_arg, bbrVars, elfVars, bccVars, pipeVars, vcVars, tlVars, cwVars>>

\* one pass of "for i in range(0, len(rows), batch_size)": session.run on one chunk
WriteBackChunk(w) ==
    /\ wb_pc[w] = "writing"
    /\ wb_rows[w] # <<>>
    /\ LET n == Min(WriteBackChunkRows, Len(wb_rows[w]))
       IN  /\ graph' = [graph EXCEPT !.basic_blocks =
                           SetScores(@, SubSeq(wb_rows[w], 1, n), StoredSha)]
           /\ wb_rows' = [wb_rows EXCEPT ![w] = SubSeq(@, n + 1, Len(@))]
    /\ UNCHANGED <<wb_pc, wb_arg, wb_done_before, load_stats, setattr_outcome>>
    /\ UNCHANGED <<bbrVars, elfVars, bccVars, vcVars, tlVars, cwVars>>

\* the loop is over: log and return
WriteBackReturn(w) ==
    /\ wb_pc[w] = "writing"
    /\ wb_rows[w] = <<>>
    /\ wb_pc' = [wb_pc EXCEPT ![w] = "done"]
    /\ UNCHANGED <<wb_arg, wb_rows, wb_done_before, bbrVars, elfVars, bccVars, pipeVars, vcVars, tlVars, cwVars>>

NoWriteBack ==
    /\ wb_pc = [w \in Writers |-> "idle"]
    /\ wb_arg = [w \in Writers |-> <<>>]
    /\ wb_rows = [w \in Writers |-> <<>>]
    /\ wb_done_before = [w \in Writers |-> {}]

(* ------------------------------------------------------------------ *)
(* The chunk loop of write_bbr_scores (analysis/bbr.py) and of          *)
(* GraphLoader._batch_unwind (graph/loader.py), one session.run at a    *)
(* time, with the requests it sends                                     *)
(* ------------------------------------------------------------------ *)
\* the query of write_bbr_scores and the Import query of load_binary
SetScoreQuery == "MATCH (bb:BasicBlock {address, binary_sha256}) SET bb.bbr_score"
MergeImportQuery == "MERGE (i:Import {address, binary_sha256}) SET i.name, i.library"

\* a slice that leaves out the last row of every batch
SliceWithoutLast(rows, i, j) == SubSeq(rows, i + 1, Min(j, Len(rows)) - 1)

\* rows[i : j] for 0 <= i <= j
Slice(rows, i, j) == SubSeq(rows, i + 1, Min(j, Len(rows)))

\* session.run(query, rows=batch) on the store
RunQuery(g, query, batch) ==
    IF query = SetScoreQuery
    THEN [g EXCEPT !.basic_blocks = SetScores(@, batch, StoredSha)]
    ELSE [g EXCEPT !.import_nodes = UnwindNodes(@, ImportNodes(batch), TRUE)]

\* the scores mapping of n blocks at the addresses 1..n
ScoresOfBlocks(n, score) == [a \in 1..n |-> score]

\* write_bbr_scores(driver, sha256, scores): rows and batch_size = 500
WriteBbrScoresCall(n, score) ==
    /\ cw_pc = "idle"
    /\ cw_pc' = "loop"
    /\ cw_query' = SetScoreQuery
    /\ cw_rows' = ScoreRows(ScoresOfBlocks(n, score), [a \in 1..n |-> a])
    /\ cw_batch_size' = WriteBatchSize
    /\ cw_i' = 0
    /\ cw_sent' = <<>>
    /\ UNCHANGED <<bbrVars, elfVars, bccVars, pipeVars, wbVars, vcVars, tlVars>>

\* self._batch_unwind(session, imp_rows, query, batch_size)
BatchUnwindCall(rows, batch_size) ==
    /\ cw_pc = "idle"
    /\ cw_pc' = "loop"
    /\ cw_query' = MergeImportQuery
    /\ cw_rows' = rows
    /\ cw_batch_size' = batch_size
    /\ cw_i' = 0
    /\ cw_sent' = <<>>
    /\ UNCHANGED <<bbrVars, elfVars, bccVars, pipeVars, wbVars, vcVars, tlVars>>

\* one pass of "for i in range(0, len(rows), batch_size)": the batch is cut and sent
ChunkRun ==
    /\ cw_pc = "loop"
    /\ cw_i < Len(cw_rows)
    /\ LET batch == Slice(cw_rows, cw_i, cw_i + cw_batch_size)
       IN  /\ cw_sent' = Append(cw_sent, batch)
           /\ graph' = RunQuery(graph, cw_query, batch)
    /\ cw_i' = cw_i + cw_batch_size
    /\ UNCHANGED <<cw_pc, cw_query, cw_rows, cw_batch_size, load_stats, setattr_outcome>>
    /\ UNCHANGED <<bbrVars, elfVars, bccVars, wbVars, vcVars, tlVars>>

\* the range is exhausted: the function returns
ChunkReturn ==
    /\ cw_pc = "loop"
    /\ cw_i >= Len(cw_rows)
    /\ cw_pc' = "done"
    /\ UNCHANGED <<cw_query, cw_rows, cw_batch_size, cw_i, cw_sent>>
    /\ UNCHANGED <<bbrVars, elfVars, bccVars, pipeVars, wbVars, vcVars, tlVars>>

NoChunkedWrite ==
    /\ cw_pc = "idle"
    /\ cw_query = ""
    /\ cw_rows = <<>>
    /\ cw_batch_size = 0
    /\ cw_i = 0
    /\ cw_sent = <<>>

(* ------------------------------------------------------------------ *)
(* validate_cypher of nl2gql/validator.py.  A str is the sequence of    *)
(* its characters.                                                      *)
(* ------------------------------------------------------------------ *)
LowerCase == <<"a", "b", "c", "d", "e", "f", "g", "h", "i", "j", "k", "l", "m",
               "n", "o", "p", "q", "r", "s", "t", "u", "v", "w", "x", "y", "z">>

UpperCase == <<"A", "B", "C", "D", "E", "F", "G", "H", "I", "J", "K", "L", "M",
               "N", "O", "P", "Q", "R", "S", "T", "U", "V", "W", "X", "Y", "Z">>

Digits == {"0", "1", "2", "3", "4", "5", "6", "7", "8", "9"}

\* str.upper() on one character and on a str
UpperChar(c) ==
    IF \E i \in Indexes(LowerCase) : LowerCase[i] = c
    THEN UpperCase[CHOOSE i \in Indexes(LowerCase) : LowerCase[i] = c]
    ELSE c

Upper(q) == [i \in Indexes(q) |-> UpperChar(q[i])]

\* \s and \w of the re module
IsSpace(c) == c \in {" ", "\n", "\t", "\r"}

IsWordChar(c) == c \in Range(LowerCase) \cup Range(UpperCase) \cup Digits \cup {"_"}

VALID_STARTERS ==
    {<<"M", "A", "T", "C", "H">>,
     <<"O", "P", "T", "I", "O", "N", "A", "L">>,
     <<"C", "R", "E", "A", "T", "E">>,
     <<"M", "E", "R", "G", "E">>,
     <<"D", "E", "L", "E", "T", "E">>,
     <<"D", "E", "T", "A", "C", "H">>,
     <<"S", "E", "T">>,
     <<"R", "E", "M", "O", "V", "E">>,
     <<"R", "E", "T", "U", "R", "N">>,
     <<"W", "I", "T", "H">>,
     <<"U", "N", "W", "I", "N", "D">>,
     <<"C", "A", "L", "L">>,
     <<"U", "N", "I", "O", "N">>,
     <<"F", "O", "R", "E", "A", "C", "H">>,
     <<"L", "O", "A", "D">>,
     <<"U", "S", "I", "N", "G">>}

WRITE_CLAUSES ==
    {<<"C", "R", "E", "A", "T", "E">>,
     <<"M", "E", "R", "G", "E">>,
     <<"D", "E", "L", "E", "T", "E">>,
     <<"D", "E", "T", "A", "C", "H", " ", "D", "E", "L", "E", "T", "E">>,
     <<"S", "E", "T">>,
     <<"R", "E", "M", "O", "V", "E">>}

RECURSIVE LStrip(_)
LStrip(q) == IF q # <<>> /\ IsSpace(q[1]) THEN LStrip(Tail(q)) ELSE q

RECURSIVE RStrip(_)
RStrip(q) == IF q # <<>> /\ IsSpace(Last(q)) THEN RStrip(SubSeq(q, 1, Len(q) - 1)) ELSE q

\* str.strip()
Strip(q) == LStrip(RStrip(q))

\* the characters of q from position i on start with the characters of w
MatchesAt(q, i, w) == i + Len(w) - 1 <= Len(q) /\ SubSeq(q, i, i + Len(w) - 1) = w

\* w in q
Contains(q, w) == \E i \in 1..(Len(q) + 1) : MatchesAt(q, i, w)

\* the character U+0060, which no string of the model can hold
Backtick == "U+0060"

Fence == <<Backtick, Backtick, Backtick>>

\* re.sub of line 95: an opening fence, cypher after it and whitespace go
StripOpeningFence(q) ==
    LET t == Strip(q)
        lang == <<"c", "y", "p", "h", "e", "r">>
        r1 == SubSeq(t, 4, Len(t))
        r2 == IF MatchesAt(r1, 1, lang) THEN SubSeq(r1, Len(lang) + 1, Len(r1)) ELSE r1
    IN  IF MatchesAt(t, 1, Fence) THEN LStrip(r2) ELSE t

\* re.sub of line 96: a closing fence goes, with the newline before it
StripClosingFence(q) ==
    LET t == Strip(q)
        n == Len(t)
    IN  IF n >= 3 /\ MatchesAt(t, n - 2, Fence)
        THEN IF n >= 4 /\ t[n - 3] = "\n" THEN SubSeq(t, 1, n - 4) ELSE SubSeq(t, 1, n - 3)
        ELSE t

\* _strip_code_fences(query)
StripCodeFences(q) == StripClosingFence(StripOpeningFence(q))

RECURSIVE Balance(_, _, _, _, _)
\* the loop of _check_balanced: the depth at the end, or -1 once it went negative
Balance(text, open_char, close_char, depth, string_char) ==
    IF text = <<>> THEN depth
    ELSE LET ch == text[1]
         IN  IF string_char # ""
             THEN Balance(Tail(text), open_char, close_char, depth,
                          IF ch = string_char THEN "" ELSE string_char)
             ELSE IF ch \in {"'", "\""}
             THEN Balance(Tail(text), open_char, close_char, depth, ch)
             ELSE IF ch = open_char
             THEN Balance(Tail(text), open_char, close_char, depth + 1, "")
             ELSE IF ch = close_char
             THEN IF depth - 1 < 0 THEN 0 - 1
                  ELSE Balance(Tail(text), open_char, close_char, depth - 1, "")
             ELSE Balance(Tail(text), open_char, close_char, depth, "")

\* _check_balanced(text, open_char, close_char)
CheckBalanced(text, open_char, close_char) == Balance(text, open_char, close_char, 0, "") = 0

RECURSIVE FirstRun(_)
\* the characters up to the first whitespace
FirstRun(q) == IF q = <<>> \/ IsSpace(q[1]) THEN <<>> ELSE <<q[1]>> \o FirstRun(Tail(q))

\* query.split()[0].upper() if query.split() else ""
FirstWord(q) == Upper(FirstRun(LStrip(q)))

\* \b at position i of q: between a word character and none
WordBoundary(q, i) ==
    (i > 1 /\ IsWordChar(q[i - 1])) # (i <= Len(q) /\ IsWordChar(q[i]))

\* re.search(rf'\b{clause}\b', upper_query)
SearchStandalone(q, clause) ==
    \E i \in 1..Len(q) :
        MatchesAt(q, i, clause) /\ WordBoundary(q, i) /\ WordBoundary(q, i + Len(clause))

\* the write clauses validate_cypher reports for lack of allow_writes, accepting all
FlaggedClausesAll(q) == {clause \in WRITE_CLAUSES : SearchStandalone(Upper(q), clause)}

\* the write clauses the loop of lines 61-65 can return on
FlaggedClauses(q) ==
    {clause \in WRITE_CLAUSES :
        SearchStandalone(Upper(q), clause) /\ clause # <<"S", "E", "T">>}

Verdict(is_valid, error, clause) == [is_valid |-> is_valid, error |-> error, clause |-> clause]

\* validate_cypher(query, allow_writes): the pairs it can return.  The loop over
\* the set WRITE_CLAUSES returns on the first flagged clause in the set's order.
ValidateCypherResults(query, allow_writes) ==
    LET stripped == Strip(query)
        q == StripCodeFences(stripped)
    IN  IF stripped = <<>> THEN {Verdict(FALSE, "Empty query", <<>>)}
        ELSE IF ~CheckBalanced(q, "(", ")") THEN {Verdict(FALSE, "Unbalanced parentheses", <<>>)}
        ELSE IF ~CheckBalanced(q, "[", "]") THEN {Verdict(FALSE, "Unbalanced brackets", <<>>)}
        ELSE IF ~CheckBalanced(q, "{", "}") THEN {Verdict(FALSE, "Unbalanced braces", <<>>)}
        ELSE IF FirstWord(q) \notin VALID_STARTERS
        THEN {Verdict(FALSE, "Query must start with a valid Cypher clause", FirstWord(q))}
        ELSE IF ~allow_writes /\ FlaggedClauses(q) # {}
        THEN {Verdict(FALSE, "Write operation not allowed in read-only mode", clause) :
                 clause \in FlaggedClauses(q)}
        ELSE IF /\ ~Contains(Upper(q), <<"R", "E", "T", "U", "R", "N">>)
                /\ ~Contains(Upper(q), <<"D", "E", "L", "E", "T", "E">>)
        THEN {Verdict(FALSE, "Query should include a RETURN clause", <<>>)}
        ELSE {Verdict(TRUE, "", <<>>)}

\* validate_cypher(query, allow_writes)
ValidateCypher ==
    /\ vc_pc = "idle"
    /\ vc_result' \in ValidateCypherResults(vc_query, vc_allow_writes)
    /\ vc_pc' = "done"
    /\ UNCHANGED <<vc_query, vc_allow_writes, bbrVars, elfVars, bccVars, pipeVars, wbVars, tlVars, cwVars>>

NoValidation ==
    /\ vc_pc = "idle"
    /\ vc_query = <<>>
    /\ vc_allow_writes = FALSE
    /\ vc_result = NoValue

(* ------------------------------------------------------------------ *)
(* LLMClient.tool_loop of llm/client.py.  litellm.completion and the    *)
(* tool executor are the caller's: each call of them returns or raises. *)
(* The token accounting of _call_litellm writes only self._usage, which *)
(* tool_loop never reads, and is left out.                              *)
(* ------------------------------------------------------------------ *)
\* a str, and None
Str(text) == [kind |-> "str", text |-> text, value |-> <<>>]

NoneContent == [kind |-> "none", text |-> "", value |-> <<>>]

\* the str that is the JSON text of a value
JsonText(value) == [kind |-> "json", text |-> "", value |-> value]

\* json.loads(tc.function.arguments), with {} for what does not parse
JsonLoadsOrEmpty(arguments) == IF arguments.kind = "json" THEN arguments.value ELSE <<>>

\* json.dumps({"error": str(exc)})
JsonDumpsError(text) == JsonText(<<[key |-> "error", val |-> text]>>)

\* x or ""
OrEmpty(content) == IF content.kind = "none" THEN Str("") ELSE content

ToolCall(id, name, arguments) == [id |-> id, name |-> name, arguments |-> arguments]

Response(content, tool_calls) == [content |-> content, tool_calls |-> tool_calls]

\* assistant_msg.model_dump()
ModelDump(response) ==
    [role |-> "assistant", content |-> response.content, tool_calls |-> response.tool_calls,
     tool_call_id |-> ""]

\* {"role": "tool", "tool_call_id": tc.id, "content": result}
ToolMessage(id, result) ==
    [role |-> "tool", content |-> result, tool_calls |-> <<>>, tool_call_id |-> id]

\* stop=stop_after_attempt(3) of the retry wrapper of _call_litellm
StopAfterAttempt == 3

\* list(messages) binds the local name to a new list
ListAlias == "caller"

ListCopy == "local"

\* range(max_iterations), one pass too many
LoopContinuesInclusive(iteration, max_iterations) == iteration <= max_iterations

\* for iteration in range(max_iterations): there is a pass for this value
LoopContinues(iteration, max_iterations) == iteration < max_iterations

\* where the loop goes for the value of iteration
LoopHead(iteration, max_iterations) ==
    IF LoopContinues(iteration, max_iterations) THEN "request" ELSE "final"

\* tool_loop(messages, tools, tool_executor, max_iterations=...)
ToolLoopCall ==
    /\ tl_pc = "idle"
    /\ \E max_iterations \in 0..MaxLoopIterations :
          /\ tl_max_iterations' = max_iterations
          /\ tl_pc' = LoopHead(0, max_iterations)
    /\ tl_ref' = ListCopy
    /\ tl_heap' = [tl_heap EXCEPT ![tl_ref'] = tl_heap["caller"]]
    /\ tl_iteration' = 0
    /\ tl_attempt' = 1
    /\ UNCHANGED <<tl_pending, tl_sent, tl_executed, tl_result>>
    /\ UNCHANGED <<bbrVars, elfVars, bccVars, pipeVars, wbVars, vcVars, cwVars>>

\* one litellm.completion(..., messages=messages, tools=tools) or, after the loop,
\* without tools, as the log keeps it
Sent(outcome, response) ==
    [tools |-> tl_pc = "request", messages |-> tl_heap[tl_ref], outcome |-> outcome,
     response |-> response]

\* litellm.completion raises: the wrapper tries again, and gives up after the third
CompletionRaises ==
    /\ tl_pc \in {"request", "final"}
    /\ tl_sent' = Append(tl_sent, Sent("raised", Response(NoneContent, <<>>)))
    /\ IF tl_attempt < StopAfterAttempt
       THEN tl_attempt' = tl_attempt + 1 /\ tl_pc' = tl_pc
       ELSE tl_attempt' = tl_attempt /\ tl_pc' = "raised"
    /\ UNCHANGED <<tl_max_iterations, tl_heap, tl_ref, tl_iteration, tl_pending, tl_executed,
                   tl_result>>
    /\ UNCHANGED <<bbrVars, elfVars, bccVars, pipeVars, wbVars, vcVars, cwVars>>

\* the request of the loop is answered: lines 155-164
CompletionResponds(response) ==
    /\ tl_pc = "request"
    /\ tl_sent' = Append(tl_sent, Sent("response", response))
    /\ IF response.tool_calls = <<>>
       THEN /\ tl_result' = OrEmpty(response.content)
            /\ tl_pc' = "returned"
            /\ UNCHANGED <<tl_heap, tl_pending>>
       ELSE /\ tl_heap' = [tl_heap EXCEPT ![tl_ref] = Append(@, ModelDump(response))]
            /\ tl_pending' = response.tool_calls
            /\ tl_pc' = "tools"
            /\ UNCHANGED tl_result
    /\ UNCHANGED <<tl_max_iterations, tl_ref, tl_iteration, tl_attempt, tl_executed>>
    /\ UNCHANGED <<bbrVars, elfVars, bccVars, pipeVars, wbVars, vcVars, cwVars>>

\* one pass of "for tc in tool_calls": lines 167-187, and the loop head after the last
ExecuteToolCall(outcome) ==
    /\ tl_pc = "tools"
    /\ LET tc == Head(tl_pending)
           func_args == JsonLoadsOrEmpty(tc.arguments)
           result == IF outcome = "returned" THEN Str("tool result")
                     ELSE JsonDumpsError("tool crashed")
       IN  /\ tl_executed' = Append(tl_executed,
                                    [id |-> tc.id, name |-> tc.name, args |-> func_args,
                                     outcome |-> outcome])
           /\ tl_heap' = [tl_heap EXCEPT ![tl_ref] = Append(@, ToolMessage(tc.id, result))]
    /\ tl_pending' = Tail(tl_pending)
    /\ IF tl_pending' = <<>>
       THEN /\ tl_iteration' = tl_iteration + 1
            /\ tl_pc' = LoopHead(tl_iteration + 1, tl_max_iterations)
            /\ tl_attempt' = 1
       ELSE UNCHANGED <<tl_iteration, tl_pc, tl_attempt>>
    /\ UNCHANGED <<tl_max_iterations, tl_ref, tl_sent, tl_result>>
    /\ UNCHANGED <<bbrVars, elfVars, bccVars, pipeVars, wbVars, vcVars, cwVars>>

\* the request after the loop is answered: lines 191-197
FinalResponds(response) ==
    /\ tl_pc = "final"
    /\ tl_sent' = Append(tl_sent, Sent("response", response))
    /\ tl_result' = OrEmpty(response.content)
    /\ tl_pc' = "returned"
    /\ UNCHANGED <<tl_max_iterations, tl_heap, tl_ref, tl_iteration, tl_attempt, tl_pending,
                   tl_executed>>
    /\ UNCHANGED <<bbrVars, elfVars, bccVars, pipeVars, wbVars, vcVars, cwVars>>

\* the caller's conversation
CallerMessages ==
    <<[role |-> "user", content |-> Str("hello"), tool_calls |-> <<>>, tool_call_id |-> ""]>>

NoToolLoop ==
    /\ tl_pc = "idle"
    /\ tl_max_iterations = 0
    /\ tl_heap = [r \in {"caller", "local"} |-> IF r = "caller" THEN CallerMessages ELSE <<>>]
    /\ tl_ref = "caller"
    /\ tl_iteration = 0
    /\ tl_attempt = 1
    /\ tl_pending = <<>>
    /\ tl_sent = <<>>
    /\ tl_executed = <<>>
    /\ tl_result = NoneContent

(* ------------------------------------------------------------------ *)
(* The containers the model loads                                      *)
(* ------------------------------------------------------------------ *)
PltBase == PltEntrySize
TextBase == 4 * PltEntrySize
RodataBase == 8 * PltEntrySize
DataBase == 10 * PltEntrySize
FarAddr == 12 * PltEntrySize

Sym(name, value, size, type, shndx) ==
    [name |-> name, st_value |-> value, st_size |-> size, type |-> type,
     bind |-> "STB_GLOBAL", st_shndx |-> shndx]

NullSym == [name |-> <<>>, st_value |-> 0, st_size |-> 0, type |-> "STT_NOTYPE",
            bind |-> "STB_LOCAL", st_shndx |-> "SHN_UNDEF"]

Undef(name, type) == Sym(name, 0, 0, type, "SHN_UNDEF")

\* instructions as capstone reports them; operand bytes are left zero
Operand(type, imm, base, disp) == [type |-> type, imm |-> imm, base |-> base, disp |-> disp]

Nop == [mnemonic |-> "nop", size |-> 5, bytes |-> <<15, 31, 68, 0, 0>>, operands |-> <<>>]

CallImm(target) ==
    [mnemonic |-> "call", size |-> 5, bytes |-> <<232, 0, 0, 0, 0>>,
     operands |-> <<Operand(X86_OP_IMM, target, 0, 0)>>]

CallMem ==
    [mnemonic |-> "call", size |-> 6, bytes |-> <<255, 144, 0, 0, 0, 0>>,
     operands |-> <<Operand(X86_OP_MEM, 0, 35, 0)>>]

Lea(disp) ==
    [mnemonic |-> "lea", size |-> 7, bytes |-> <<72, 141, 5, 0, 0, 0, 0>>,
     operands |-> <<Operand(1, 0, 0, 0), Operand(X86_OP_MEM, 0, X86_REG_RIP, disp)>>]

Undecodable == [mnemonic |-> "(bad)", size |-> 1, bytes |-> <<6>>, operands |-> <<>>]

Stub(i) == StubAddr(PltBase, i)

Image(sections, dynsym, symtab, rela_plt, is_relocation, plt_base, insns, rodata, data) ==
    [e_machine |-> "EM_X86_64", little_endian |-> TRUE, elfclass |-> 64, e_type |-> "ET_DYN",
     sections |-> sections,
     dynsym |-> dynsym, symtab |-> symtab,
     rela_plt |-> rela_plt, rela_plt_is_relocation |-> is_relocation,
     plt |-> [sh_addr |-> plt_base, sh_size |-> 3 * PltEntrySize],
     plt_got |-> [sh_addr |-> 0, sh_size |-> 0],
     text |-> [sh_addr |-> TextBase, insns |-> insns],
     rodata |-> [sh_addr |-> RodataBase, data |-> rodata],
     data |-> [sh_addr |-> DataBase, data |-> data]]

\* "hello" NUL "ab" NUL, and a 0x01 byte followed by "world"
RodataBytes == <<104, 101, 108, 108, 111, 0, 97, 98, 0>>
DataBytes == <<1, 119, 111, 114, 108, 100>>

AllSections == {".text", ".plt", ".dynsym", ".symtab", ".rela.plt", ".rodata", ".data"}

\* import tables: none; printf bound by a relocation; puts left to the fallback as
\* well; no relocation section
ImportTables ==
    {[sections |-> {}, dynsym |-> <<>>, rela_plt |-> <<>>],
     [sections |-> {".plt", ".dynsym", ".rela.plt"},
      dynsym |-> <<NullSym, Undef(<<"printf">>, "STT_FUNC")>>, rela_plt |-> <<1>>],
     [sections |-> {".plt", ".dynsym", ".rela.plt"},
      dynsym |-> <<NullSym, Undef(<<"printf">>, "STT_FUNC"), Undef(<<"puts">>, "STT_FUNC")>>,
      rela_plt |-> <<1>>],
     [sections |-> {".plt", ".dynsym"},
      dynsym |-> <<NullSym, Undef(<<"printf">>, "STT_FUNC")>>, rela_plt |-> <<>>]}

\* symbols a static symbol table may list
SymChoices ==
    {Sym(<<"main">>, TextBase, 10, "STT_FUNC", "1"),
     Sym(<<"helper">>, TextBase, 5, "STT_FUNC", "1"),
     Sym(<<"helper">>, TextBase + 5, 5, "STT_FUNC", "1"),
     Sym(<<"_", "start">>, TextBase, 5, "STT_FUNC", "1"),
     Sym(<<"frame", "_", "dummy">>, TextBase + 5, 5, "STT_FUNC", "1"),
     Sym(<<"printf", "@", "plt">>, Stub(0), PltEntrySize, "STT_FUNC", "2"),
     Sym(<<"puts">>, Stub(0), PltEntrySize, "STT_FUNC", "2"),
     Sym(<<"printf">>, TextBase + 5, 5, "STT_FUNC", "1"),
     Sym(<<"table">>, TextBase, 4, "STT_OBJECT", "1"),
     Sym(<<"main">>, TextBase, 0, "STT_FUNC", "1"),
     Sym(<<"helper">>, FarAddr, 5, "STT_FUNC", "1")}

InsnChoices == {Nop, CallImm(Stub(0)), CallImm(TextBase + 5), CallImm(FarAddr), CallMem}

\* containers that differ in their symbol table, their code and their import tables
CodeImages ==
    {Image(t.sections \cup {".text", ".symtab", ".rodata", ".data"}, t.dynsym, symtab,
           t.rela_plt, TRUE, PltBase, insns, RodataBytes, DataBytes) :
        t \in ImportTables,
        symtab \in SeqsUpTo(SymChoices, MaxSymtab),
        insns \in SeqsUpTo(InsnChoices, MaxInsns)}

RegularFile(images) ==
    /\ path_kind = "regular"
    /\ disk \in images
    /\ fault = "none"
    /\ ElfIdle

NoBccCall ==
    /\ suffix_is_bcc = FALSE
    /\ blackfyre_installed = FALSE
    /\ bcc_fault = "none"
    /\ BccIdle

NoBbrCall ==
    /\ block_rows = <<>>
    /\ edge_rows = <<>>
    /\ BbrIdle

InitElf == RegularFile(CodeImages) /\ NoBccCall /\ NoBbrCall /\ NoPipeline /\ NoWriteBack /\ NoValidation /\ NoToolLoop /\ NoChunkedWrite

SpecElf == InitElf /\ [][NextElf]_vars

\* containers that differ in the sections they hold and in their import tables
OptionalSections == {".text", ".plt", ".dynsym", ".rela.plt", ".rodata", ".data"}

DynChoices ==
    {Undef(<<"printf">>, "STT_FUNC"),
     Undef(<<"puts">>, "STT_FUNC"),
     Undef(<<"stdout">>, "STT_OBJECT"),
     Sym(<<"helper">>, TextBase + 5, 5, "STT_FUNC", "1")}

DynsymChoices == {<<NullSym>> \o q : q \in SeqsUpTo(DynChoices, MaxDynsym)}

ImagesWith(secs) ==
    LET dyns == IF ".dynsym" \in secs THEN DynsymChoices ELSE {<<>>}
        bases == IF ".plt" \in secs THEN {0, PltBase} ELSE {0}
        flags == IF ".rela.plt" \in secs THEN BOOLEAN ELSE {TRUE}
        relas(d) == IF ".rela.plt" \in secs /\ d # <<>>
                    THEN SeqsUpTo(0..(Len(d) - 1), MaxRelocs) ELSE {<<>>}
    IN  UNION {{Image(secs \cup {".symtab"}, d,
                      <<Sym(<<"main">>, TextBase, 10, "STT_FUNC", "1")>>,
                      rela, fl, b, <<CallImm(Stub(0)), Lea(RodataBase - TextBase - 12 + 6)>>,
                      RodataBytes, DataBytes) :
                   rela \in relas(d), b \in bases, fl \in flags} : d \in dyns}

SectionImages == UNION {ImagesWith(secs) : secs \in SUBSET OptionalSections}

InitElfSections == RegularFile(SectionImages) /\ NoBccCall /\ NoBbrCall /\ NoPipeline /\ NoWriteBack /\ NoValidation /\ NoToolLoop /\ NoChunkedWrite

SpecElfSections == InitElfSections /\ [][NextElf]_vars

\* containers whose relocation list is longer than their stub table: the third
\* relocation is bound to the address at which .text starts
StubTables ==
    {[sections |-> {".plt", ".dynsym", ".rela.plt"},
      dynsym |-> <<NullSym, Undef(<<"printf">>, "STT_FUNC"), Undef(<<"puts">>, "STT_FUNC"),
                   Undef(<<"exit">>, "STT_FUNC")>>,
      rela_plt |-> <<1, 2, 3>>],
     [sections |-> {".plt", ".dynsym", ".rela.plt"},
      dynsym |-> <<NullSym, Undef(<<"printf">>, "STT_FUNC"), Undef(<<"puts">>, "STT_FUNC")>>,
      rela_plt |-> <<1>>]}

StubInsnChoices == {Nop, CallImm(Stub(0)), CallImm(TextBase), CallImm(TextBase + 5)}

StubImages ==
    {Image(t.sections \cup {".text", ".symtab", ".rodata", ".data"}, t.dynsym, symtab,
           t.rela_plt, TRUE, PltBase, insns, RodataBytes, DataBytes) :
        t \in StubTables,
        symtab \in SeqsUpTo(SymChoices, MaxSymtab),
        insns \in SeqsUpTo(StubInsnChoices, MaxInsns)}

InitElfStubs == RegularFile(StubImages) /\ NoBccCall /\ NoBbrCall /\ NoPipeline /\ NoWriteBack /\ NoValidation /\ NoToolLoop /\ NoChunkedWrite

SpecElfStubs == InitElfStubs /\ [][NextElf]_vars

\* containers whose code loads addresses around and inside .rodata
LeaAbs(disp) == [Lea(disp) EXCEPT !.operands[2].base = 0]

\* displacements that reach offset k of .rodata from the first instruction
LeaOffsets == {0 - 1, 0, 3, 5, 6, 7}

LeaDisp(k) == RodataBase - TextBase - 7 + k

LeaInsnChoices == {Nop, LeaAbs(LeaDisp(0))} \cup {Lea(LeaDisp(k)) : k \in LeaOffsets}

\* "hello" NUL "ab" NUL; "hi" NUL, two bytes above 0x7f, NUL, "abc" without a NUL
LeaRodataChoices == {RodataBytes, <<104, 105, 0, 200, 201, 0, 97, 98, 99>>}

LeaImages ==
    {Image(secs \cup {".text", ".symtab", ".data"}, <<>>,
           <<Sym(<<"main">>, TextBase, 14, "STT_FUNC", "1")>>, <<>>, TRUE, PltBase, insns,
           rodata, DataBytes) :
        secs \in {{}, {".rodata"}},
        insns \in SeqsUpTo(LeaInsnChoices, MaxInsns),
        rodata \in LeaRodataChoices}

InitElfLea == RegularFile(LeaImages) /\ NoBccCall /\ NoBbrCall /\ NoPipeline /\ NoWriteBack /\ NoValidation /\ NoToolLoop /\ NoChunkedWrite

SpecElfLea == InitElfLea /\ [][NextElf]_vars

\* containers that differ in the bytes of their data-bearing sections: the bytes
\* at both ends of the printable range and their neighbours outside it
MaxSectionBytes == 5

EdgeBytes == {31, 32, 126, 127}

StringDataChoices ==
    {<<>>, <<32, 32>>, <<126, 126, 126, 126>>, <<0, 97, 98, 99, 100, 0, 101, 102, 103, 104, 105>>}

StringImage(secs, rodata, data) ==
    Image(secs \cup {".text", ".symtab"}, <<>>,
          <<Sym(<<"main">>, TextBase, 5, "STT_FUNC", "1")>>, <<>>, TRUE, PltBase, <<Nop>>,
          rodata, data)

StringImages ==
    {StringImage({".rodata", ".data"}, rodata, data) :
        rodata \in SeqsUpTo(EdgeBytes, MaxSectionBytes), data \in StringDataChoices}
      \cup {StringImage({sec}, <<32, 126, 126, 32>>, data) :
               sec \in {".rodata", ".data"}, data \in StringDataChoices}

InitElfStrings == RegularFile(StringImages) /\ NoBccCall /\ NoBbrCall /\ NoPipeline /\ NoWriteBack /\ NoValidation /\ NoToolLoop /\ NoChunkedWrite

SpecElfStrings == InitElfStrings /\ [][NextElf]_vars

\* a file that another process rewrites while it is loaded
RaceImages ==
    {Image(t.sections \cup {".text", ".symtab", ".rodata", ".data"}, t.dynsym,
           <<Sym(<<"main">>, TextBase, 10, "STT_FUNC", "1")>>, t.rela_plt, TRUE, PltBase,
           insns, RodataBytes, DataBytes) :
        t \in ImportTables, insns \in {<<>>, <<Nop>>, <<CallImm(Stub(0))>>}}

InitElfRace == RegularFile(RaceImages) /\ NoBccCall /\ NoBbrCall /\ NoPipeline /\ NoWriteBack /\ NoValidation /\ NoToolLoop /\ NoChunkedWrite

NextElfRace ==
    \/ NextElf
    \/ \E image \in RaceImages : RewriteFile(image)

SpecElfRace == InitElfRace /\ [][NextElfRace]_vars

\* load_elf on containers with every small import table, then load_binary with
\* merge=True on the empty graph
ImportImages == ImagesWith(OptionalSections)

InitImportLoad == RegularFile(ImportImages) /\ NoBccCall /\ NoBbrCall /\ NoPipeline /\ NoWriteBack /\ NoValidation /\ NoToolLoop /\ NoChunkedWrite

NextImportLoad ==
    \/ NextElf
    \/ \E batch_size \in BatchSizes : LoadBinaryCall(batch_size, TRUE)

SpecImportLoad == InitImportLoad /\ [][NextImportLoad]_vars

\* both loaders on every kind of path and every failing stage
LoaderImages ==
    {Image(t.sections \cup {".text", ".symtab", ".rodata", ".data"}, t.dynsym,
           <<Sym(<<"main">>, TextBase, 10, "STT_FUNC", "1")>>, t.rela_plt, TRUE, PltBase,
           <<CallImm(Stub(0)), Nop>>, RodataBytes, DataBytes) : t \in ImportTables}

PathKinds == {"missing", "directory", "unreadable", "regular"}
ElfFaults == {"none", "open", "symbols", "plt", "strings", "functions"}
BccFaults == {"none", "context", "convert"}

InitLoaders ==
    /\ path_kind \in PathKinds
    /\ IF path_kind = "regular"
       THEN disk \in LoaderImages /\ fault \in ElfFaults /\ bcc_fault \in BccFaults
       ELSE disk = NoValue /\ fault = "none" /\ bcc_fault = "none"
    /\ ElfIdle
    /\ suffix_is_bcc \in BOOLEAN
    /\ blackfyre_installed \in BOOLEAN
    /\ BccIdle
    /\ NoBbrCall
    /\ NoPipeline /\ NoWriteBack /\ NoValidation /\ NoToolLoop /\ NoChunkedWrite

NextLoaders == NextElf \/ NextBcc

SpecLoaders == InitLoaders /\ [][NextLoaders]_vars

\* the pipeline of the command line: extract, load, analyze with write-back
PipelineSymbols ==
    {Sym(<<"main">>, TextBase, 10, "STT_FUNC", "1"),
     Sym(<<"helper">>, TextBase, 5, "STT_FUNC", "1"),
     Sym(<<"helper">>, TextBase + 5, 5, "STT_FUNC", "1")}

PipelineImages ==
    {Image(t.sections \cup {".text", ".symtab", ".rodata", ".data"}, t.dynsym, symtab,
           t.rela_plt, TRUE, PltBase, insns, RodataBytes, DataBytes) :
        t \in ImportTables,
        symtab \in SeqsUpTo(PipelineSymbols, MaxSymtab),
        insns \in {<<>>, <<CallImm(Stub(0)), Lea(RodataBase - TextBase - 12)>>}}

InitPipeline == RegularFile(PipelineImages) /\ NoBccCall /\ NoBbrCall /\ NoPipeline /\ NoWriteBack /\ NoValidation /\ NoToolLoop /\ NoChunkedWrite

NextPipeline ==
    \/ NextElf
    \/ GraphLoadBinary
    \/ (graph.binary_files # <<>> /\ ComputeBbrCall({1, DefaultIterations}, {DefaultDamping}))
    \/ ExtractCfg
    \/ ReturnEmpty
    \/ BuildAdjacency
    \/ PowerIteration
    \/ ReturnScores
    \/ WriteBbrScores
    \/ AssignField

SpecPipeline == InitPipeline /\ [][NextPipeline]_vars

\* no file is being loaded
NoFile ==
    /\ path_kind = "missing"
    /\ disk = NoValue
    /\ fault = "none"
    /\ ElfIdle
    /\ suffix_is_bcc = FALSE
    /\ blackfyre_installed = FALSE
    /\ bcc_fault = "none"
    /\ BccIdle

InitBBR ==
    /\ block_rows \in SortedBlockRows(Addresses)
    /\ edge_rows \in SeqsUpTo(Addresses \X Addresses, MaxEdges)
    /\ BbrIdle
    /\ NoFile
    /\ NoPipeline /\ NoWriteBack /\ NoValidation /\ NoToolLoop /\ NoChunkedWrite

NextBBR ==
    \/ ComputeBbrCall(IterationChoices, DampingChoices)
    \/ ExtractCfg
    \/ ReturnEmpty
    \/ BuildAdjacency
    \/ PowerIteration
    \/ ReturnScores

SpecBBR == InitBBR /\ [][NextBBR]_vars

\* the same computation on small stores, run for LongIterations passes
LongAddresses == 1..LongMaxAddr

InitBBRLong ==
    /\ block_rows \in SortedBlockRows(LongAddresses)
    /\ edge_rows \in SeqsUpTo(LongAddresses \X LongAddresses, LongMaxEdges)
    /\ BbrIdle
    /\ NoFile
    /\ NoPipeline /\ NoWriteBack /\ NoValidation /\ NoToolLoop /\ NoChunkedWrite

NextBBRLong ==
    \/ ComputeBbrCall({LongIterations}, DampingChoices)
    \/ ExtractCfg
    \/ ReturnEmpty
    \/ BuildAdjacency
    \/ PowerIteration
    \/ ReturnScores

SpecBBRLong == InitBBRLong /\ [][NextBBRLong]_vars

\* two callers write scores back for one binary, with no order imposed on them
ScoreChoices == {FDiv(FOne, FInt(2)), FDiv(FOne, FInt(4))}

InitWriteBack ==
    /\ \E addrs \in SUBSET Addresses :
          /\ graph = [EmptyGraph EXCEPT !.basic_blocks = StoredBlocks(Addresses)]
          /\ wb_arg \in [Writers -> [addrs -> ScoreChoices]]
    /\ wb_pc = [w \in Writers |-> "idle"]
    /\ wb_rows = [w \in Writers |-> <<>>]
    /\ wb_done_before = [w \in Writers |-> {}]
    /\ load_stats = NoValue
    /\ setattr_outcome = "none"
    /\ NoBbrCall
    /\ NoFile
    /\ NoValidation /\ NoToolLoop /\ NoChunkedWrite

NextWriteBack ==
    \E w \in Writers :
        \/ WriteBackStart(w)
        \/ WriteBackChunk(w)
        \/ WriteBackReturn(w)

SpecWriteBack == InitWriteBack /\ [][NextWriteBack]_vars

\* chunked submissions: score rows for the blocks of the store and for one more
\* address, and import rows with every small batch size and the default one
MaxChunkRows == 4

ScoreRowCounts == 0..MaxChunkRows

ImportRowChoices ==
    {[ref |-> ImportReference(<<"printf">>, "", Stub(0)), sha256 |-> StoredSha,
      func_address |-> <<TextBase>>],
     [ref |-> ImportReference(<<"puts">>, "", 0), sha256 |-> StoredSha, func_address |-> <<>>]}

ChunkBatchSizes == (1..(MaxChunkRows + 1)) \cup {DefaultBatchSize}

InitChunkedWrite ==
    /\ graph = [EmptyGraph EXCEPT !.basic_blocks = StoredBlocks(Addresses)]
    /\ load_stats = NoValue
    /\ setattr_outcome = "none"
    /\ NoChunkedWrite
    /\ NoWriteBack /\ NoValidation /\ NoToolLoop
    /\ NoBbrCall
    /\ NoBccCall
    /\ NoFile

NextChunkedWrite ==
    \/ \E n \in ScoreRowCounts, score \in ScoreChoices : WriteBbrScoresCall(n, score)
    \/ \E rows \in SeqsUpTo(ImportRowChoices, MaxChunkRows), batch_size \in ChunkBatchSizes :
          BatchUnwindCall(rows, batch_size)
    \/ ChunkRun
    \/ ChunkReturn

SpecChunkedWrite == InitChunkedWrite /\ [][NextChunkedWrite]_vars

\* the queries: up to MaxFragments pieces of text, one after the other
QueryFragments ==
    {<<"M", "A", "T", "C", "H">>,
     <<"S", "E", "T">>,
     <<"C", "R", "E", "A", "T", "E">>,
     <<"m", "e", "r", "g", "e">>,
     <<"D", "E", "L", "E", "T", "E">>,
     <<"D", "E", "T", "A", "C", "H">>,
     <<"R", "E", "M", "O", "V", "E">>,
     <<"R", "E", "T", "U", "R", "N">>,
     <<" ">>,
     <<"x">>,
     <<"(">>,
     <<"'">>,
     Fence}

Queries == {Flatten(fs) : fs \in SeqsUpTo(QueryFragments, MaxFragments)}

InitValidate ==
    /\ vc_pc = "idle"
    /\ vc_query \in Queries
    /\ vc_allow_writes \in BOOLEAN
    /\ vc_result = NoValue
    /\ NoPipeline /\ NoWriteBack /\ NoToolLoop /\ NoChunkedWrite
    /\ NoBbrCall
    /\ NoBccCall
    /\ NoFile

NextValidate == ValidateCypher

SpecValidate == InitValidate /\ [][NextValidate]_vars

\* what the model and the executor can answer
ToolCalls ==
    {ToolCall("call_1", "lookup", JsonText(<<[key |-> "name", val |-> "main"]>>)),
     ToolCall("call_2", "lookup", Str("not json"))}

LoopResponses ==
    {Response(content, <<>>) : content \in {NoneContent, Str("answer")}}
    \cup {Response(NoneContent, tool_calls) :
             tool_calls \in SeqsUpTo(ToolCalls, MaxToolCalls) \ {<<>>}}

FinalResponses == {Response(content, <<>>) : content \in {NoneContent, Str("forced stop")}}

ExecutorOutcomes == {"returned", "raised"}

InitToolLoop ==
    /\ NoToolLoop /\ NoChunkedWrite
    /\ NoPipeline /\ NoWriteBack /\ NoValidation
    /\ NoBbrCall
    /\ NoBccCall
    /\ NoFile

NextToolLoop ==
    \/ ToolLoopCall
    \/ CompletionRaises
    \/ \E response \in LoopResponses : CompletionResponds(response)
    \/ \E outcome \in ExecutorOutcomes : ExecuteToolCall(outcome)
    \/ \E response \in FinalResponses : FinalResponds(response)

SpecToolLoop == InitToolLoop /\ [][NextToolLoop]_vars

\* the thread that runs tool_loop goes on, and every call of litellm.completion
\* and of the executor comes back
SpecToolLoopFair == SpecToolLoop /\ WF_vars(NextToolLoop)

\* the same computation when the store returns its rows in any order, a block
\* or an edge more than once included
InitBBROrder ==
    /\ block_rows \in SeqsUpTo(Addresses, MaxAddr)
    /\ edge_rows \in SeqsUpTo(Addresses \X Addresses, OrderMaxEdges)
    /\ BbrIdle
    /\ NoFile
    /\ NoPipeline /\ NoWriteBack /\ NoValidation /\ NoToolLoop /\ NoChunkedWrite

NextBBROrder ==
    \/ ComputeBbrCall(0..OrderMaxIterations, {DefaultDamping})
    \/ ExtractCfg
    \/ ReturnEmpty
    \/ BuildAdjacency
    \/ PowerIteration
    \/ ReturnScores

SpecBBROrder == InitBBROrder /\ [][NextBBROrder]_vars

(* ------------------------------------------------------------------ *)
(* Properties of compute_bbr                                           *)
(* ------------------------------------------------------------------ *)
Abs(x) == IF x < 0 THEN 0 - x ELSE x

\* |x - 1| < 1 / tolInv, decided exactly
WithinTolOfOne(x, tolInv) ==
    LET s == 0 - x[2]
    IN  /\ s > 0
        /\ s <= 20
        /\ Abs(x[1] - Pow2(s)) * tolInv < Pow2(s)

\* sum(scores.values()): the dict is built in node_list order
ScoreSum == VecSum([i \in 1..Len(node_list) |-> scores[node_list[i]]])

BbrReturned == bbr_pc = "done" /\ nodes # {}

\* C1: for every non-empty node set, every edge list, every iteration count and
\* every damping factor in [0, 1], the scores compute_bbr returns sum to 1.0
\* within 1e-3.
C1_ScoresSumToOne == BbrReturned => WithinTolOfOne(ScoreSum, 1000)

\* C10: for a chain A->B->C of three blocks, compute_bbr with the default 20
\* iterations and damping 0.85 scores the sink C strictly above the source A.
IsChain(a, b, c) ==
    /\ nodes = {a, b, c}
    /\ a # b /\ b # c /\ a # c
    /\ Len(edges) = 2
    /\ Range(edges) = {<<a, b>>, <<b, c>>}

DefaultCall == iterations = DefaultIterations /\ damping_factor = DefaultDamping

C10_ChainSinkAboveSource ==
    \A a, b, c \in Addresses :
        (bbr_pc = "done" /\ IsChain(a, b, c) /\ DefaultCall)
            => FLess(scores[a], scores[c])

C10_Witness ==
    /\ bbr_pc = "done"
    /\ DefaultCall
    /\ IsChain(1, 2, 3)
    /\ iter_done = DefaultIterations
    /\ FLess(scores[1], scores[3])

\* a score of at most 2 in units of 2^-20, rounded down
Fixed20(x) ==
    IF x[2] >= 0 - 20 THEN x[1] * Pow2(x[2] + 20)
    ELSE IF x[2] < 0 - 50 THEN 0
    ELSE x[1] \div Pow2(0 - 20 - x[2])

\* |x - y| < 1 / tolInv holds; the rounding of Fixed20 counts against it
WithinTol(x, y, tolInv) == (Abs(Fixed20(x) - Fixed20(y)) + 1) * tolInv < Pow2(20)

IsCycle(a, b, c) ==
    /\ nodes = {a, b, c}
    /\ a # b /\ b # c /\ a # c
    /\ Len(edges) = 3
    /\ Range(edges) = {<<a, b>>, <<b, c>>, <<c, a>>}

\* C11: for a 3-node cycle A->B->C->A, compute_bbr returns three scores that are
\* equal to each other within 1e-2 and that sum to 1 within 1e-3, for every
\* iteration count.
C11_CycleScoresEqual ==
    \A a, b, c \in Addresses :
        (bbr_pc = "done" /\ IsCycle(a, b, c))
            => /\ \A x, y \in nodes : WithinTol(scores[x], scores[y], 100)
               /\ WithinTolOfOne(ScoreSum, 1000)

\* the cycle 1->2->3->1 after the default 20 passes
C11_Witness ==
    /\ bbr_pc = "done"
    /\ IsCycle(1, 2, 3)
    /\ DefaultCall
    /\ iter_done = DefaultIterations
    /\ WithinTol(scores[1], scores[3], 100)

\* C12: when the store holds no basic block for the binary, compute_bbr returns the
\* empty mapping: it raises nothing, builds no matrix and runs no pass, whatever
\* edges the store returns.
C12_EmptyStoreGivesEmptyMapping ==
    (bbr_pc \notin {"idle", "extract"} /\ nodes = {})
        => /\ bbr_pc \in {"check", "done"}
           /\ node_list = <<>> /\ M = <<>> /\ out_degree = <<>>
           /\ rank = <<>> /\ teleport = <<>> /\ iter_done = 0
           /\ bbr_pc = "done" => scores = <<>>

\* no block row, two edge rows, and the call has returned
C12_Witness ==
    /\ bbr_pc = "done"
    /\ block_rows = <<>>
    /\ Len(edge_rows) = 2
    /\ edges = edge_rows
    /\ scores = <<>>


\* the sum of column j of M, added from the first row down
ColumnSum(j) == VecSum([i \in 1..Len(M) |-> M[i][j]])

MatrixBuilt == bbr_pc \in {"iterate", "done"} /\ nodes # {}

\* C18: once the matrix is built, for every node set and every edge list of the
\* store, no entry of M is negative and every column of M sums to 1 (within
\* 1e-3 in floating point).
C18_ColumnsSumToOne ==
    MatrixBuilt =>
        \A j \in 1..Len(M) :
            /\ \A i \in 1..Len(M) : M[i][j][1] >= 0
            /\ WithinTolOfOne(ColumnSum(j), 1000)

\* the rows of a result in every order a store can return them
Orderings(rows) ==
    {[i \in Indexes(rows) |-> rows[f[i]]] : f \in Permutations(Indexes(rows))}

RECURSIVE RankAfter(_, _, _, _)
\* the rank vector after k updates
RankAfter(k, m, tp, d) ==
    IF k = 0 THEN tp
    ELSE CHOOSE after \in {RankUpdate(m, before, tp, d) :
                              before \in {RankAfter(k - 1, m, tp, d)}} : TRUE

\* the nodes in order and the matrix a computation builds from the rows given
MatrixOn(rows, flow_rows) ==
    LET nl == SortedSeq(ExtractedNodes(rows))
    IN  [node_list |-> nl, M |-> BuildMatrix(nl, ExtractedEdges(flow_rows)).M]

\* the mapping of a computation that makes exactly its updates on a matrix
ScoresOn(nl, m, its, d) ==
    CHOOSE result \in
        {[a \in Range(nl) |-> r[Idx(nl, a)]] :
            r \in {NormalizeRank(last) :
                      last \in {RankAfter(its, m, tp, d) : tp \in {Uniform(Len(nl))}}}} : TRUE

\* a pass of the loop is one update, and the loop is left only after the last
ExactlyIterationsUpdates ==
    /\ (bbr_pc = "iterate" /\ bbr_pc' = "iterate")
          => (iter_done' = iter_done + 1 /\ iter_done' <= iterations)
    /\ (bbr_pc = "iterate" /\ bbr_pc' = "done") => iter_done = iterations

ResultForEveryOrder ==
    BbrReturned =>
        /\ iter_done = iterations
        /\ \A rows \in Orderings(block_rows), flow_rows \in Orderings(edge_rows) :
              MatrixOn(rows, flow_rows) = [node_list |-> node_list, M |-> M]
        /\ scores = ScoresOn(node_list, M, iterations, damping_factor)

\* C19: compute_bbr makes exactly `iterations` rank updates, never leaving the
\* loop earlier, and the mapping it returns is the one the node set, the edge
\* rows, the iterations and the damping determine: the same for every order in
\* which the store returns the block rows and the edge rows.
C19_DeterministicResult == []ResultForEveryOrder /\ [][ExactlyIterationsUpdates]_vars

\* two edges of one source were returned, two updates were made and the
\* mapping was returned
C19_Witness ==
    /\ BbrReturned
    /\ iterations = OrderMaxIterations
    /\ iter_done = iterations
    /\ block_rows = <<3, 1, 2>>
    /\ edge_rows = <<<<1, 3>>, <<1, 2>>>>
    /\ FLess(scores[1], scores[2])

(* ------------------------------------------------------------------ *)
(* Properties of GraphLoader.load_binary                                *)
(* ------------------------------------------------------------------ *)
\* the relationships of one type in the store
RelsOfType(type) == Cardinality({i \in Indexes(graph.rels) : graph.rels[i].type = type})

\* C14: after load_binary the statistics it returned count what the store
\* holds: Function nodes, CALLS relationships, BasicBlock nodes, Instruction
\* nodes, String nodes and Import nodes, one per reported unit.
C14_StatsCountPersisted ==
    load_stats # NoValue =>
        /\ load_stats.functions = Len(graph.function_nodes)
        /\ load_stats.calls = RelsOfType("CALLS")
        /\ load_stats.basic_blocks = Len(graph.basic_blocks)
        /\ load_stats.instructions = Len(graph.instruction_nodes)
        /\ load_stats.strings = Len(graph.string_nodes)
        /\ load_stats.imports = Len(graph.import_nodes)

(* ------------------------------------------------------------------ *)
(* Properties of validate_cypher                                        *)
(* ------------------------------------------------------------------ *)
\* the query holds a write clause as a standalone word, whatever its case
HasWriteClause == FlaggedClausesAll(vc_query) # {}

RejectedForWrite == vc_result.error = "Write operation not allowed in read-only mode"

\* C15: without allow_writes a query holding any clause of WRITE_CLAUSES as a
\* standalone word is invalid; with allow_writes no query is rejected for
\* holding one.
C15_WriteClausesRejected ==
    vc_pc = "done" =>
        /\ (~vc_allow_writes /\ HasWriteClause) => ~vc_result.is_valid
        /\ vc_allow_writes => ~RejectedForWrite

(* ------------------------------------------------------------------ *)
(* Properties of LLMClient.tool_loop                                    *)
(* ------------------------------------------------------------------ *)
ToolLoopEnded == tl_pc \in {"returned", "raised"}

\* a request that was answered by a response with tool calls
RequestsTools(e) == e.outcome = "response" /\ e.response.tool_calls # <<>>

AnsweredWithTools(e) == e.tools /\ e.outcome = "response"

SentWithTools(e) == e.tools

SentWithoutTools(e) == ~e.tools

AttemptRaised(e) == e.outcome = "raised"

\* C16 as stated: at most max_iterations completion requests carry tools, and a
\* call whose responses all request tools returns after max_iterations + 1
\* completion requests in total.
C16_RequestsBounded_Original ==
    /\ Len(SelectSeq(tl_sent, SentWithTools)) <= tl_max_iterations
    /\ (/\ tl_pc = "returned"
        /\ \A i \in Indexes(tl_sent) : AnsweredWithTools(tl_sent[i]) => RequestsTools(tl_sent[i]))
       => Len(tl_sent) = tl_max_iterations + 1

\* what holds of the requests at every moment of a call
ToolLoopRequests ==
    /\ Len(SelectSeq(tl_sent, AnsweredWithTools)) <= tl_max_iterations
    /\ Len(SelectSeq(tl_sent, SentWithTools)) <= StopAfterAttempt * tl_max_iterations
    /\ Len(SelectSeq(tl_sent, SentWithoutTools)) <= StopAfterAttempt
    /\ Len(tl_sent) <= StopAfterAttempt * (tl_max_iterations + 1)
    /\ \A i \in Indexes(tl_sent) :
          /\ (AnsweredWithTools(tl_sent[i]) /\ ~RequestsTools(tl_sent[i]))
                => (i = Len(tl_sent) /\ tl_pc = "returned")
          /\ SentWithoutTools(tl_sent[i])
                => Len(SelectSeq(SubSeq(tl_sent, 1, i), RequestsTools)) = tl_max_iterations
          /\ (SentWithoutTools(tl_sent[i]) /\ ~AttemptRaised(tl_sent[i]))
                => (i = Len(tl_sent) /\ tl_pc = "returned")
    /\ tl_pc = "returned" =>
          /\ Last(tl_sent).outcome = "response"
          /\ Last(tl_sent).response.tool_calls = <<>>
          /\ tl_result = OrEmpty(Last(tl_sent).response.content)
          /\ (SelectSeq(tl_sent, AttemptRaised) = <<>> /\ SentWithoutTools(Last(tl_sent)))
                => Len(tl_sent) = tl_max_iterations + 1
    /\ tl_pc = "raised" =>
          /\ Len(tl_sent) >= StopAfterAttempt
          /\ \A i \in (Len(tl_sent) - StopAfterAttempt + 1)..Len(tl_sent) :
                /\ AttemptRaised(tl_sent[i])
                /\ tl_sent[i].messages = Last(tl_sent).messages
                /\ tl_sent[i].tools = Last(tl_sent).tools

\* C16: every call of tool_loop ends, by returning or, once a request has
\* raised on each of its three attempts, by raising.  It returns as soon as a
\* response carries no tool calls, gets at most max_iterations responses to
\* requests with tools, and after max_iterations responses that request tools
\* it sends one further request without tools and returns that response's
\* text.  A request that raises is sent again, so max_iterations + 1 requests
\* are sent in total only when none raises, and never more than three times that.
C16_ToolLoopTerminates == []ToolLoopRequests /\ <>ToolLoopEnded

\* two rounds of tool calls, a request that raised once, and the forced stop
C16_Witness ==
    /\ tl_pc = "returned"
    /\ tl_max_iterations = 2
    /\ Len(SelectSeq(tl_sent, RequestsTools)) = 2
    /\ Len(SelectSeq(tl_sent, AttemptRaised)) = 1
    /\ Len(tl_sent) = 4
    /\ tl_result = Str("forced stop")

\* the result the executor's outcome puts into the tool message
ResultOf(e) == IF e.outcome = "returned" THEN Str("tool result") ELSE JsonDumpsError("tool crashed")

RECURSIVE Transcript(_, _)
\* the messages the responses and the outcomes of their tool calls add
Transcript(resps, execs) ==
    IF resps = <<>> THEN <<>>
    ELSE LET calls == resps[1].tool_calls
             n == Min(Len(calls), Len(execs))
         IN  <<ModelDump(resps[1])>>
             \o [i \in 1..n |-> ToolMessage(calls[i].id, ResultOf(execs[i]))]
             \o Transcript(Tail(resps), SubSeq(execs, n + 1, Len(execs)))

\* the responses with tool calls among the first k requests
ToolResponses(k) ==
    LET es == SelectSeq(SubSeq(tl_sent, 1, k), RequestsTools)
    IN  [i \in Indexes(es) |-> es[i].response]

IsToolMessage(m) == m.role = "tool"

\* C17: the executor runs once for each tool call of each response, in the
\* order of the response; the messages sent with every request are the
\* caller's, followed for each earlier response by the assistant message and
\* one tool message per call with that call's id; the tool message of a call
\* whose executor raised holds the JSON object with the error text, and the
\* exception does not leave tool_loop; the caller's list never changes.
C17_ToolMessagesPerCall ==
    LET resps == ToolResponses(Len(tl_sent))
        calls == Flatten([i \in Indexes(resps) |-> resps[i].tool_calls])
        tool_msgs == SelectSeq(tl_heap[tl_ref], IsToolMessage)
    IN  /\ tl_heap["caller"] = CallerMessages
        /\ Len(tl_executed) = Len(calls) - Len(tl_pending)
        /\ \A i \in Indexes(tl_executed) :
              /\ tl_executed[i].id = calls[i].id
              /\ tl_executed[i].name = calls[i].name
              /\ tl_executed[i].args = JsonLoadsOrEmpty(calls[i].arguments)
        /\ Len(tool_msgs) = Len(tl_executed)
        /\ \A i \in Indexes(tool_msgs) :
              /\ tool_msgs[i].tool_call_id = tl_executed[i].id
              /\ tool_msgs[i].content =
                    IF tl_executed[i].outcome = "raised"
                    THEN JsonText(<<[key |-> "error", val |-> "tool crashed"]>>)
                    ELSE Str("tool result")
        /\ tl_heap[tl_ref] = CallerMessages \o Transcript(resps, tl_executed)
        /\ \A k \in Indexes(tl_sent) :
              /\ tl_sent[k].messages =
                    CallerMessages \o Transcript(ToolResponses(k - 1), tl_executed)
              /\ Len(SelectSeq(tl_sent[k].messages, IsToolMessage)) =
                    Len(Flatten([i \in Indexes(ToolResponses(k - 1)) |->
                                    ToolResponses(k - 1)[i].tool_calls]))
        /\ tl_pc = "raised" => AttemptRaised(Last(tl_sent))

\* a response asked for two tool calls, the executor raised on the first, and
\* the loop went on to return the next response's text
C17_Witness ==
    /\ tl_pc = "returned"
    /\ Len(tl_executed) = 2
    /\ tl_executed[1].outcome = "raised" /\ tl_executed[2].outcome = "returned"
    /\ tl_executed[1].id = "call_2" /\ tl_executed[2].id = "call_1"
    /\ Len(tl_sent) = 2
    /\ Len(tl_sent[2].messages) = 4
    /\ tl_result = Str("answer")

(* ------------------------------------------------------------------ *)
(* Properties of write_bbr_scores                                       *)
(* ------------------------------------------------------------------ *)
\* the node of the block at addr of the binary
StoredBlock(addr) ==
    graph.basic_blocks[CHOOSE i \in Indexes(graph.basic_blocks) :
                           graph.basic_blocks[i].key = AddrKey(addr, StoredSha)]

HasScore(addr) == "bbr_score" \in DOMAIN StoredBlock(addr).props

StoredScore(addr) == StoredBlock(addr).props.bbr_score

BothReturned == \A w \in Writers : wb_pc[w] = "done"

\* C13: nothing orders two write-backs of one binary.  When one call returned
\* before the other started, every block of their addresses stores the score
\* of the later call; at any moment a stored score is the value some started
\* call passed for that block, and blocks of other binaries are untouched.
C13_LaterWriteBackWins ==
    /\ \A v, w \in Writers :
          (BothReturned /\ v \in wb_done_before[w]) =>
              \A addr \in DOMAIN wb_arg[w] : StoredScore(addr) = wb_arg[w][addr]
    /\ \A addr \in Addresses :
          HasScore(addr) =>
              \E w \in Writers : /\ wb_pc[w] # "idle"
                                 /\ addr \in DOMAIN wb_arg[w]
                                 /\ StoredScore(addr) = wb_arg[w][addr]
    /\ \A i \in Indexes(graph.basic_blocks) :
          graph.basic_blocks[i].key.binary_sha256 = OtherSha =>
              "bbr_score" \notin DOMAIN graph.basic_blocks[i].props

\* two overlapping calls of more than one chunk each have returned, and the
\* store holds the score of the first at one block and of the second at another
C13_Witness ==
    /\ BothReturned
    /\ \A w \in Writers : wb_done_before[w] = {} /\ Len(ScoreRows(wb_arg[w], SortedSeq(DOMAIN wb_arg[w]))) > WriteBackChunkRows
    /\ \E a, b \in DOMAIN wb_arg[1] :
          /\ StoredScore(a) = wb_arg[1][a] /\ StoredScore(a) # wb_arg[2][a]
          /\ StoredScore(b) = wb_arg[2][b] /\ StoredScore(b) # wb_arg[1][b]

\* one call returned before the other started, and they passed different scores
C13_SerialWitness ==
    /\ BothReturned
    /\ 1 \in wb_done_before[2]
    /\ \E a \in DOMAIN wb_arg[1] : wb_arg[1][a] # wb_arg[2][a] /\ StoredScore(a) = wb_arg[2][a]

(* ------------------------------------------------------------------ *)
(* Properties of the loaders                                           *)
(* ------------------------------------------------------------------ *)
\* C2: load_elf and load_bcc_file never raise: a missing file, a path that cannot be
\* read as a file, a corrupt container and a failure inside any stage each give
\* None, and no exception reaches the caller.
C2_LoadersNeverRaise ==
    /\ elf_result.kind # "raised"
    /\ bcc_result.kind # "raised"
    /\ (elf_pc = "done" /\ (path_kind # "regular" \/ fault # "none"))
          => elf_result = ReturnedNone

\* C3: every FunctionArtifact of load_elf owns exactly one block, whose address is
\* the function's address, whose size is the function's declared size, whose
\* num_instructions is the number of decoded instructions and whose successor list
\* is empty.
C3_OneBlockPerFunction ==
    ElfReturned =>
        \A i \in Indexes(Artifact.functions) :
            LET f == Artifact.functions[i]
                b == f.basic_blocks[1]
            IN  /\ Len(f.basic_blocks) = 1
                /\ b.address = f.address
                /\ DictHas(symbols, f.name)
                /\ DictGet(symbols, f.name).size = f.size
                /\ b.size = f.size
                /\ b.num_instructions = Len(Disasm(elf.text, f.address, f.size))
                /\ b.num_instructions = Len(b.instructions)
                /\ b.successors = <<>>

\* a function whose declared size exceeds the bytes that decode
C3_Witness ==
    /\ ElfReturned
    /\ \E i \in Indexes(Artifact.functions) :
          LET f == Artifact.functions[i]
          IN  /\ f.size = 10
              /\ f.basic_blocks[1].num_instructions = 1
              /\ f.basic_blocks[1].size = 10

RECURSIVE ImmCallTargets(_)
\* the immediate operands of the call instructions of a decoded sequence, in order
ImmCallTargets(decoded) ==
    IF decoded = <<>> THEN <<>>
    ELSE LET insn == decoded[1].insn
             here == IF /\ insn.mnemonic = "call"
                        /\ Len(insn.operands) > 0
                        /\ insn.operands[1].type = 2
                     THEN <<insn.operands[1].imm>> ELSE <<>>
         IN  here \o ImmCallTargets(Tail(decoded))

\* the address is in the symbol map or is a stub address of the import map
Resolved(target) ==
    \/ \E i \in Indexes(symbols) : symbols[i].val.address = target
    \/ \E i \in Indexes(plt_entries) : plt_entries[i].val = target /\ target # 0

\* C4: every decoded call with an immediate operand appends its target to the
\* function's callees, in instruction order and keeping duplicates, resolved or
\* not; an unresolved target adds no import reference and raises nothing.
C4_CalleesKeepEveryTarget ==
    /\ (elf_pc = "done" /\ fault = "none" /\ path_kind = "regular")
          => elf_result.kind = "artifact"
    /\ ElfReturned =>
          \A i \in Indexes(Artifact.functions) :
              LET f == Artifact.functions[i]
              IN  /\ f.callees = ImmCallTargets(Disasm(elf.text, f.address, f.size))
                  /\ \A k \in Indexes(f.imports) : Resolved(f.imports[k].address)

\* a function that calls the same unresolved address twice
C4_Witness ==
    /\ ElfReturned
    /\ \E i \in Indexes(Artifact.functions) :
          /\ Artifact.functions[i].callees = <<FarAddr, FarAddr>>
          /\ ~Resolved(FarAddr)
          /\ Artifact.functions[i].imports = <<>>

RECURSIVE Count(_, _)
Count(q, x) == IF q = <<>> THEN 0 ELSE (IF q[1] = x THEN 1 ELSE 0) + Count(Tail(q), x)

RECURSIVE ImportsAt(_, _)
\* the import references of a list that carry the address
ImportsAt(imps, address) ==
    IF imps = <<>> THEN <<>>
    ELSE (IF imps[1].address = address THEN <<imps[1]>> ELSE <<>>)
             \o ImportsAt(Tail(imps), address)

\* the calls of f to the stub registered for entry e give one reference each
StubCallsGiveImports(f, e) ==
    LET calls == ImmCallTargets(Disasm(elf.text, f.address, f.size))
        n == Count(calls, e.val)
    IN  /\ ImportsAt(f.imports, e.val) = [k \in 1..n |-> ImportReference(e.key, "", e.val)]
        /\ (Len(calls) = 1 /\ n = 1) => f.imports = <<ImportReference(e.key, "", e.val)>>

SymbolInStubRegion(address) ==
    /\ \E i \in Indexes(symbols) : symbols[i].val.address = address
    /\ \/ /\ HasSection(elf, ".plt")
          /\ elf.plt.sh_addr <= address
          /\ address < elf.plt.sh_addr + elf.plt.sh_size
       \/ /\ HasSection(elf, ".plt.got")
          /\ elf.plt_got.sh_addr <= address
          /\ address < elf.plt_got.sh_addr + elf.plt_got.sh_size

HasAt(name) == \E k \in Indexes(name) : name[k] = "@"

InRange(address, base, len) == base <= address /\ address < base + len

\* C6: when the container parses but lacks .text, .plt, .dynsym, .rela.plt, .rodata
\* or .data, load_elf still returns an artifact, in which the collection fed by the
\* missing section is empty; with no .dynsym the import map and the artifact's
\* imports are empty.
C6_MissingSectionsGiveEmpty ==
    (elf_pc = "done" /\ fault = "none" /\ path_kind = "regular") =>
        /\ elf_result.kind = "artifact"
        /\ ".text" \notin elf.sections => Artifact.functions = <<>>
        /\ ".plt" \notin elf.sections => Artifact.imports = <<>>
        /\ ".dynsym" \notin elf.sections => (plt_entries = <<>> /\ Artifact.imports = <<>>)
        /\ ".rela.plt" \notin elf.sections
              => \A k \in Indexes(Artifact.imports) : Artifact.imports[k].address = 0
        /\ ".rodata" \notin elf.sections
              => /\ \A k \in Indexes(Artifact.strings) :
                        ~InRange(Artifact.strings[k].address, RodataBase, Len(RodataBytes))
                 /\ \A i \in Indexes(Artifact.functions) : Artifact.functions[i].strings = <<>>
        /\ ".data" \notin elf.sections
              => \A k \in Indexes(Artifact.strings) :
                     ~InRange(Artifact.strings[k].address, DataBase, Len(DataBytes))

\* no dynamic symbol table, everything else present
C6_Witness ==
    /\ ElfReturned
    /\ elf.sections = AllSections \ {".dynsym"}
    /\ Artifact.imports = <<>>
    /\ Len(Artifact.functions) = 1
    /\ Len(Artifact.strings) = 2

\* the 0-based ordinals of the relocations that name the symbol
RelocOrdinals(name) ==
    IF HasSection(elf, ".rela.plt") /\ elf.rela_plt_is_relocation
    THEN {i \in 0..(Len(elf.rela_plt) - 1) : elf.dynsym[elf.rela_plt[i + 1] + 1].name = name}
    ELSE {}

PltStageDone == elf_pc \in {"strings", "functions", "assemble"} \/ ElfReturned

\* C7: an import bound by a relocation has the non-zero address
\* plt_base + (i + 1) * 16, an import of the fallback has address 0, and so the two
\* kinds never share an address.
C7_RelocAndFallbackApart ==
    PltStageDone =>
        /\ \A j \in Indexes(plt_entries) :
              LET e == plt_entries[j]
              IN  IF RelocOrdinals(e.key) # {}
                  THEN /\ e.val # 0
                       /\ \E i \in RelocOrdinals(e.key) : e.val = elf.plt.sh_addr + (i + 1) * 16
                  ELSE e.val = 0
        /\ \A j, k \in Indexes(plt_entries) :
              (RelocOrdinals(plt_entries[j].key) # {} /\ RelocOrdinals(plt_entries[k].key) = {})
                  => plt_entries[j].val # plt_entries[k].val

\* a stub table at address 0 with one bound and one fallback import
C7_Witness ==
    /\ PltStageDone
    /\ elf.plt.sh_addr = 0
    /\ \E j, k \in Indexes(plt_entries) :
          /\ RelocOrdinals(plt_entries[j].key) # {}
          /\ RelocOrdinals(plt_entries[k].key) = {}
          /\ plt_entries[j].val = PltEntrySize
          /\ plt_entries[k].val = 0

\* the stub table, the dynamic symbols and the relocations are all there
RelocationsRead ==
    /\ PltStageDone
    /\ HasSection(elf, ".plt") /\ HasSection(elf, ".dynsym")
    /\ HasSection(elf, ".rela.plt") /\ elf.rela_plt_is_relocation

\* the largest of a non-empty set of ordinals
LastOrdinal(S) == CHOOSE i \in S : \A k \in S : k <= i

\* C20: every symbol with a non-empty name that a relocation entry names is in
\* the import map at plt_base + (i + 1) * 16, i the 0-based ordinal of the
\* (last) entry naming it among all entries, the nameless ones counted; no
\* relocated import sits at plt_base itself.
C20_RelocatedSymbolsAtTheirSlot ==
    RelocationsRead =>
        \A i \in 0..(Len(elf.rela_plt) - 1) :
            LET name == elf.dynsym[elf.rela_plt[i + 1] + 1].name
            IN  name # <<>> =>
                   /\ DictHas(plt_entries, name)
                   /\ DictGet(plt_entries, name) =
                         elf.plt.sh_addr + (LastOrdinal(RelocOrdinals(name)) + 1) * 16
                   /\ DictGet(plt_entries, name) # elf.plt.sh_addr
                   /\ i = LastOrdinal(RelocOrdinals(name))
                         => DictGet(plt_entries, name) = elf.plt.sh_addr + (i + 1) * 16

\* the first entry names the nameless symbol 0, the second names a symbol, which
\* is bound to the third slot of the stub table
C20_Witness ==
    /\ RelocationsRead
    /\ elf.plt.sh_addr = PltBase
    /\ Len(elf.rela_plt) = 2
    /\ elf.rela_plt[1] = 0
    /\ elf.dynsym[elf.rela_plt[2] + 1].name # <<>>
    /\ DictGet(plt_entries, elf.dynsym[elf.rela_plt[2] + 1].name) = PltBase + 2 * PltEntrySize

Distinct(q) == \A i, j \in Indexes(q) : i # j => q[i] # q[j]

ArtifactBlocks(a) == Flatten([i \in Indexes(a.functions) |-> a.functions[i].basic_blocks])

ArtifactInstructions(a) ==
    LET blocks == ArtifactBlocks(a)
    IN  Flatten([i \in Indexes(blocks) |-> blocks[i].instructions])

Addresses_(q) == [i \in Indexes(q) |-> q[i].address]

\* C8: in every artifact of load_elf no two FunctionArtifacts, no two
\* BasicBlockArtifacts and no two InstructionArtifacts have the same address.
C8_AddressesUnique ==
    ElfReturned =>
        /\ Distinct(Addresses_(Artifact.functions))
        /\ Distinct(Addresses_(ArtifactBlocks(Artifact)))
        /\ Distinct(Addresses_(ArtifactInstructions(Artifact)))


\* C9: an assignment to a field of any artifact value raises FrozenInstanceError and
\* leaves the value as it was, and neither GraphLoader.load_binary nor compute_bbr
\* nor write_bbr_scores changes a field of the artifact load_elf returned: the scores
\* go to the graph store only.
C9_ArtifactsNeverChange ==
    [][elf_result.kind = "artifact"
          => /\ elf_result' = elf_result
             /\ setattr_outcome' \in {setattr_outcome, "FrozenInstanceError"}]_vars

\* an assignment was rejected, and a load and a write-back have stored scores
C9_Witness ==
    /\ ElfReturned
    /\ Len(Artifact.functions) = 2
    /\ setattr_outcome = "FrozenInstanceError"
    /\ load_stats # NoValue
    /\ bbr_pc = "written"
    /\ \E i \in Indexes(graph.basic_blocks) :
          /\ "bbr_score" \in DOMAIN graph.basic_blocks[i].props
          /\ graph.basic_blocks[i].props.bbr_score = scores[graph.basic_blocks[i].key.address]

\* the dynamic symbols an import stands for: function-typed, undefined, named
IsUndefinedFunction(sym) ==
    sym.name # <<>> /\ sym.type = "STT_FUNC" /\ sym.st_shndx = "SHN_UNDEF"

\* C21: in a container with a dynamic symbol table every function-typed,
\* undefined dynamic symbol with a non-empty name is in the import map, at its
\* stub address when a relocation names it and at address 0 otherwise, whether
\* or not the container has a .plt or a .rela.plt; the fallback never overwrites
\* an address bound by a relocation.
C21_UndefinedFunctionsImported ==
    (PltStageDone /\ HasSection(elf, ".dynsym")) =>
        \A k \in Indexes(elf.dynsym) :
            LET sym == elf.dynsym[k]
            IN  IsUndefinedFunction(sym) =>
                   /\ DictHas(plt_entries, sym.name)
                   /\ (HasSection(elf, ".plt") /\ RelocOrdinals(sym.name) # {})
                         => DictGet(plt_entries, sym.name) =
                               StubAddr(elf.plt.sh_addr, LastOrdinal(RelocOrdinals(sym.name)))
                   /\ RelocOrdinals(sym.name) = {} => DictGet(plt_entries, sym.name) = 0

\* _get_functions has built its address -> name map
FunctionsStageDone == (elf_pc = "assemble" \/ ElfReturned) /\ HasSection(elf, ".text")

\* the most specific kind of symbol: function-typed with a non-zero size
MostSpecific(info) == info.type = "STT_FUNC" /\ info.size > 0

ReverseSeq(q) == [i \in Indexes(q) |-> q[Len(q) + 1 - i]]

\* the address -> name map of the container whose symbol tables list their
\* symbols in the opposite order
AddrToNameReversed ==
    LET image == [elf EXCEPT !.symtab = ReverseSeq(@), !.dynsym = ReverseSeq(@)]
    IN  AddrToName(image, GetSymbols(image), plt_entries)

\* the address belongs to no import and to no stub
OutsideStubs(address) ==
    /\ \A k \in Indexes(plt_entries) : plt_entries[k].val # address
    /\ ~(HasSection(elf, ".plt") /\ InRange(address, elf.plt.sh_addr, elf.plt.sh_size))

\* C22: when two symbols share an address the address -> name map keeps the
\* most specific of the two, the function-typed one of non-zero size, and keeps
\* the same one for every order in which the symbol tables list them.
C22_MostSpecificSymbolKept ==
    FunctionsStageDone =>
        \A i, j \in Indexes(symbols) :
            LET address == symbols[i].val.address
            IN  (/\ i # j
                 /\ symbols[j].val.address = address
                 /\ OutsideStubs(address)
                 /\ MostSpecific(symbols[i].val)
                 /\ ~MostSpecific(symbols[j].val))
                    => /\ DictGet(AddrToName(elf, symbols, plt_entries), address) = symbols[i].key
                       /\ DictGet(AddrToNameReversed, address) = symbols[i].key

\* the immediate call targets of the container's code
CallTargetsOfText ==
    {elf.text.insns[k].operands[1].imm :
        k \in {k \in Indexes(elf.text.insns) : CallTargets(elf.text.insns[k]) # <<>>}}

\* the names the merged symbol map holds for the address, whole and cut at their
\* first "@"
SymbolNamesAt(address) ==
    LET at == {i \in Indexes(symbols) : symbols[i].val.address = address}
    IN  {symbols[i].key : i \in at} \cup {SplitAtFirst(symbols[i].key) : i \in at}

\* the names the import map binds to the address
ImportNamesAt(address) ==
    {plt_entries[k].key : k \in {k \in Indexes(plt_entries) : plt_entries[k].val = address}}

\* C23: a call target that the merged symbol map and the import map both hold,
\* under different names, resolves to the name of the symbol map; the import map
\* gives the name only when the symbol map has no entry for the address.
C23_SymbolMapResolvesFirst ==
    FunctionsStageDone =>
        \A target \in CallTargetsOfText :
            LET name == TargetName(AddrToName(elf, symbols, plt_entries), symbols, target)
            IN  /\ (/\ SymbolNamesAt(target) # {}
                    /\ ImportNamesAt(target) # {}
                    /\ SymbolNamesAt(target) \cap ImportNamesAt(target) = {})
                       => name \in SymbolNamesAt(target)
                /\ (name # <<>> /\ name \notin SymbolNamesAt(target))
                       => SymbolNamesAt(target) = {}

\* the address lies in the stub region: .plt or .plt.got
InStubRegion(address) ==
    \/ HasSection(elf, ".plt") /\ InRange(address, elf.plt.sh_addr, elf.plt.sh_size)
    \/ HasSection(elf, ".plt.got") /\ InRange(address, elf.plt_got.sh_addr, elf.plt_got.sh_size)

\* C24: a call instruction adds an ImportReference to its function only when its
\* target lies in the stub region; a call to a target outside the stub region
\* gives a callee address and no ImportReference, whatever name the target
\* resolves to.
C24_ImportsOnlyFromStubRegion ==
    ElfReturned =>
        \A i \in Indexes(Artifact.functions) :
            LET f == Artifact.functions[i]
                calls == ImmCallTargets(Disasm(elf.text, f.address, f.size))
            IN  /\ f.callees = calls
                /\ \A k \in Indexes(f.imports) : InStubRegion(f.imports[k].address)
                /\ \A k \in Indexes(calls) :
                      ~InStubRegion(calls[k]) => ImportsAt(f.imports, calls[k]) = <<>>

\* the prefixes of start-up names: '_', '__', 'deregister_', 'register_', 'frame_'
StartupPrefixes ==
    {<<"_">>, <<"_", "_">>, <<"deregister", "_">>, <<"register", "_">>, <<"frame", "_">>}

\* the symbol is a function of the executable section: function-typed, of
\* non-zero size, its address inside .text
InText(info) ==
    /\ info.type = "STT_FUNC"
    /\ info.size > 0
    /\ InRange(info.address, elf.text.sh_addr, TextLen(elf.text))

\* the entries of the symbol map that _get_functions is to recover
Recoverable ==
    {i \in Indexes(symbols) :
        InText(symbols[i].val) /\ ~StartsWithAny(symbols[i].key, StartupPrefixes)}

\* the function artifacts emitted for an entry of the symbol map
EmittedFor(i) ==
    {k \in Indexes(functions) :
        /\ functions[k].name = symbols[i].key
        /\ functions[k].address = symbols[i].val.address
        /\ functions[k].size = symbols[i].val.size}

\* C25: _get_functions emits exactly one FunctionArtifact for each symbol of the
\* symbol map it is given that is function-typed, of non-zero size, with its
\* address in [text_base, text_base + len(text)) and a name without start-up
\* prefix, none for any other symbol, and the functions in ascending address order.
C25_OneFunctionPerTextSymbol ==
    FunctionsStageDone =>
        /\ \A i \in Recoverable : Cardinality(EmittedFor(i)) = 1
        /\ \A i \in Indexes(symbols) \ Recoverable :
              \A k \in Indexes(functions) : functions[k].name # symbols[i].key
        /\ \A k \in Indexes(functions) : \E i \in Recoverable : k \in EmittedFor(i)
        /\ Len(functions) = Cardinality(Recoverable)
        /\ \A k, l \in Indexes(functions) :
              k < l => functions[k].address <= functions[l].address

\* two functions listed in descending address order, emitted in ascending order
C25_Witness ==
    /\ ElfReturned
    /\ Len(symbols) = 2
    /\ symbols[1].val.address > symbols[2].val.address
    /\ Recoverable = {1, 2}
    /\ Len(Artifact.functions) = 2
    /\ Artifact.functions[1].name = symbols[2].key

\* a start-up function and a symbol of size 0 in .text, neither of them emitted
C25_SkipWitness ==
    /\ ElfReturned
    /\ Len(symbols) = 2
    /\ Recoverable = {}
    /\ \E i, j \in Indexes(symbols) :
          /\ InText(symbols[i].val) /\ StartsWithAny(symbols[i].key, StartupPrefixes)
          /\ symbols[j].val.type = "STT_FUNC" /\ symbols[j].val.size = 0
    /\ Artifact.functions = <<>>

RECURSIVE RunToNul(_, _)
\* the bytes of the section from the 0-based offset up to, not including, the
\* next NUL byte, or up to the end of the section
RunToNul(data, offset) ==
    IF offset >= Len(data) \/ data[offset + 1] = 0 THEN <<>>
    ELSE <<data[offset + 1]>> \o RunToNul(data, offset + 1)

\* a lea whose memory operand is relative to the instruction pointer
IsRipLea(insn) ==
    /\ insn.mnemonic = "lea"
    /\ Len(insn.operands) >= 2
    /\ insn.operands[2].type = X86_OP_MEM
    /\ insn.operands[2].base = X86_REG_RIP

\* instruction_address + instruction_length + displacement
LeaTarget(d) == d.address + d.insn.size + d.insn.operands[2].disp

InRodata(address) ==
    HasSection(elf, ".rodata") /\ InRange(address, elf.rodata.sh_addr, Len(elf.rodata.data))

\* the run a target inside .rodata points at
RunAt(address) == RunToNul(elf.rodata.data, address - elf.rodata.sh_addr)

\* C26, as claimed: every rip-relative lea of a recovered function whose target,
\* address + length + displacement, lies inside .rodata attaches a StringReference
\* with that address and the bytes up to the next NUL as value, and nothing is
\* attached for a target outside the section.
C26_LeaAttachesString_Original ==
    ElfReturned =>
        \A i \in Indexes(Artifact.functions) :
            LET f == Artifact.functions[i]
                decoded == Disasm(elf.text, f.address, f.size)
                leas == {k \in Indexes(decoded) : IsRipLea(decoded[k].insn)}
            IN  /\ \A k \in leas :
                      InRodata(LeaTarget(decoded[k]))
                          => \E s \in Indexes(f.strings) :
                                 f.strings[s] = StringReference(RunAt(LeaTarget(decoded[k])),
                                                                LeaTarget(decoded[k]))
                /\ \A s \in Indexes(f.strings) :
                      \E k \in leas : /\ LeaTarget(decoded[k]) = f.strings[s].address
                                      /\ InRodata(f.strings[s].address)

\* the run is one the loader keeps: at least 2 bytes, all of them ASCII
KeptRun(run) == Len(run) >= 2 /\ \A k \in Indexes(run) : run[k] < 128

\* the run as the loader reads it: whole when a NUL ends it, its first 256 bytes
\* at most when the section ends before a NUL
LoadedRun(address) ==
    LET run == RunAt(address)
    IN  IF address - elf.rodata.sh_addr + Len(run) < Len(elf.rodata.data) THEN run
        ELSE SubSeq(run, 1, Min(Len(run), 256))

\* the reference a decoded instruction is to attach, as a list of 0 or 1
LeaReference(d) ==
    IF IsRipLea(d.insn) /\ InRodata(LeaTarget(d)) /\ KeptRun(LoadedRun(LeaTarget(d)))
    THEN <<StringReference(LoadedRun(LeaTarget(d)), LeaTarget(d))>>
    ELSE <<>>

\* C26, amended: the reference is attached when, besides, the run (cut to 256
\* bytes when no NUL ends it) is at least 2 bytes long and holds ASCII bytes
\* only; the strings of a function are exactly these references, one for each
\* such lea, in instruction order.
C26_LeaAttachesString ==
    ElfReturned =>
        \A i \in Indexes(Artifact.functions) :
            LET f == Artifact.functions[i]
                decoded == Disasm(elf.text, f.address, f.size)
            IN  f.strings = Flatten([k \in Indexes(decoded) |-> LeaReference(decoded[k])])

\* a lea to "ab" and a lea to the one-byte run "b" behind it: one reference
C26_Witness ==
    /\ ElfReturned
    /\ elf.rodata.data = RodataBytes
    /\ \E i \in Indexes(Artifact.functions) :
          LET f == Artifact.functions[i]
              decoded == Disasm(elf.text, f.address, f.size)
          IN  /\ Len(decoded) = 2
              /\ IsRipLea(decoded[1].insn) /\ IsRipLea(decoded[2].insn)
              /\ LeaTarget(decoded[1]) = RodataBase + 6
              /\ LeaTarget(decoded[2]) = RodataBase + 7
              /\ f.strings = <<StringReference(<<97, 98>>, RodataBase + 6)>>

\* _get_strings has returned
StringsStageDone == elf_pc \in {"functions", "assemble"} \/ ElfReturned

\* the data-bearing sections the container holds
DataSections ==
    (IF HasSection(elf, ".rodata") THEN {elf.rodata} ELSE {})
        \cup (IF HasSection(elf, ".data") THEN {elf.data} ELSE {})

\* the maximal runs of bytes in 0x20..0x7e of a section, as pairs of the 0-based
\* offsets of their first and last byte
MaximalRuns(data) ==
    {r \in (0..(Len(data) - 1)) \X (0..(Len(data) - 1)) :
        /\ r[1] <= r[2]
        /\ \A o \in r[1]..r[2] : 32 <= data[o + 1] /\ data[o + 1] <= 126
        /\ r[1] = 0 \/ data[r[1]] < 32 \/ data[r[1]] > 126
        /\ r[2] = Len(data) - 1 \/ data[r[2] + 2] < 32 \/ data[r[2] + 2] > 126}

\* the string a run of a section is to be returned as
RunString(sec, r) == StringReference(SubSeq(sec.data, r[1] + 1, r[2] + 1), sec.sh_addr + r[1])

\* C27: for .rodata and .data, _get_strings returns exactly the maximal runs of
\* bytes in 0x20..0x7e of length >= 4, each once and in ascending offset order,
\* with address = section base + offset of the first byte: a run that reaches the
\* end of its section is returned, a run shorter than 4 is not, no returned run
\* is a part of a longer run and none spans two sections.
C27_StringsAreMaximalRuns ==
    StringsStageDone =>
        /\ \A k \in Indexes(strings) :
              \E sec \in DataSections : \E r \in MaximalRuns(sec.data) :
                  r[2] - r[1] + 1 >= 4 /\ strings[k] = RunString(sec, r)
        /\ \A sec \in DataSections : \A r \in MaximalRuns(sec.data) :
              r[2] - r[1] + 1 >= 4
                  => Cardinality({k \in Indexes(strings) : strings[k] = RunString(sec, r)}) = 1
        /\ \A k, l \in Indexes(strings) : k < l => strings[k].address < strings[l].address

\* a run that reaches the end of .rodata is returned whole, and is not joined
\* with the short run at the start of .data
C27_Witness ==
    /\ ElfReturned
    /\ DataSections = {elf.rodata, elf.data}
    /\ elf.rodata.data = <<31, 32, 126, 126, 32>>
    /\ elf.data.data = <<32, 32>>
    /\ Artifact.strings = <<StringReference(<<32, 126, 126, 32>>, RodataBase + 1)>>

\* a run in the middle of .data and one that reaches its end, .rodata missing
C27_OffsetWitness ==
    /\ ElfReturned
    /\ DataSections = {elf.data}
    /\ Artifact.strings = <<StringReference(<<97, 98, 99, 100>>, DataBase + 1),
                             StringReference(<<101, 102, 103, 104, 105>>, DataBase + 6)>>

\* a BasicBlock node as the store held it before any write-back
Unscored(node) == node.props = [size |-> 1, num_instructions |-> 1]

\* the rows sent so far that name the address
SentRowsAt(address) ==
    {r \in {Flatten(cw_sent)[k] : k \in Indexes(Flatten(cw_sent))} : r.address = address}

\* C28: the batches write_bbr_scores (chunk size 500) and _batch_unwind
\* (batch_size >= 1) send, concatenated in send order, are the row list: every
\* row once, none dropped or repeated; every batch has between 1 and chunk-size
\* rows; the number of requests is ceil(rows / chunk size), none for an empty row
\* list; and write_bbr_scores changes a block only under the key (address of the
\* row, sha256 of the binary), never a block of another binary.
C28_ChunksCoverRows ==
    cw_pc \in {"loop", "done"} =>
        /\ Flatten(cw_sent) = SubSeq(cw_rows, 1, Min(cw_i, Len(cw_rows)))
        /\ \A k \in Indexes(cw_sent) :
              1 <= Len(cw_sent[k]) /\ Len(cw_sent[k]) <= cw_batch_size
        /\ cw_pc = "done" =>
              /\ Flatten(cw_sent) = cw_rows
              /\ Len(cw_sent) = (Len(cw_rows) + cw_batch_size - 1) \div cw_batch_size
              /\ cw_rows = <<>> => cw_sent = <<>>
        /\ \A i \in Indexes(graph.basic_blocks) :
              LET node == graph.basic_blocks[i]
              IN  /\ node.key.binary_sha256 # StoredSha => Unscored(node)
                  /\ ~Unscored(node) =>
                        /\ cw_query = SetScoreQuery
                        /\ \E r \in SentRowsAt(node.key.address) :
                              node.props = [size |-> 1, num_instructions |-> 1,
                                            bbr_score |-> r.score]
        /\ cw_query = SetScoreQuery =>
              \A i \in Indexes(graph.basic_blocks) :
                  LET node == graph.basic_blocks[i]
                  IN  (node.key.binary_sha256 = StoredSha /\ SentRowsAt(node.key.address) # {})
                          => ~Unscored(node)

\* _batch_unwind with 3 rows and batch_size 2: two requests, of 2 rows and of 1 row
C28_Witness ==
    /\ cw_pc = "done"
    /\ cw_query = MergeImportQuery
    /\ Len(cw_rows) = 3
    /\ cw_batch_size = 2
    /\ cw_sent = <<SubSeq(cw_rows, 1, 2), SubSeq(cw_rows, 3, 3)>>

\* write_bbr_scores with 3 rows: one request; the blocks of the binary are
\* scored, the block of the other binary at the address of a row is not
C28_ScoresWitness ==
    /\ cw_pc = "done"
    /\ cw_query = SetScoreQuery
    /\ cw_batch_size = WriteBatchSize
    /\ Len(cw_rows) = 3
    /\ cw_sent = <<cw_rows>>
    /\ \E i, j \in Indexes(graph.basic_blocks) :
          /\ graph.basic_blocks[i].key = AddrKey(1, StoredSha)
          /\ ~Unscored(graph.basic_blocks[i])
          /\ graph.basic_blocks[j].key = AddrKey(1, OtherSha)
          /\ Unscored(graph.basic_blocks[j])

\* C29: the sha256 of an artifact load_elf returns is the digest of the very bytes
\* its functions, strings and imports were extracted from, also when another
\* process rewrites the file at any point while load_elf is running.
C29_DigestOfExtractedBytes ==
    ElfReturned =>
        /\ Artifact.sha256 = Sha256(elf)
        /\ Artifact.functions = GetFunctions(elf, GetSymbols(elf), GetPltImports(elf, GetSymbols(elf)))
        /\ Artifact.strings = GetStrings(elf)
        /\ Artifact.imports = GlobalImports(GetPltImports(elf, GetSymbols(elf)))

\* the import references of an artifact: its own and those of its functions
ImportRefs(a) ==
    {a.imports[k] : k \in Indexes(a.imports)}
        \cup UNION {{a.functions[i].imports[k] : k \in Indexes(a.functions[i].imports)} :
                      i \in Indexes(a.functions)}

\* C30: after load_binary(artifact) with merge=True on an empty graph the graph
\* holds, for every ImportReference of the artifact and of its functions, an
\* Import node of that binary that carries the import's name, whatever the
\* addresses of the imports: stub addresses bound by relocations, or the address 0
\* of the fallback.
C30_EveryImportHasItsNode ==
    (ElfReturned /\ load_stats # NoValue) =>
        \A imp \in ImportRefs(Artifact) :
            \E i \in Indexes(graph.import_nodes) :
                /\ graph.import_nodes[i].key.binary_sha256 = Artifact.sha256
                /\ graph.import_nodes[i].props.name = imp.name

====
